---- MODULE Spec2Model ----
(***************************************************************************)
(* State-machine model of the DMME rendering core: RenderPipeline          *)
(* (driver selection, frame protocol), GPUSurface and the two              *)
(* IGraphicsDriver backends (DX11Driver, OpenGLDriver).                    *)
(*                                                                         *)
(* Every pipeline operation is one atomic action (rendering is             *)
(* single-threaded).  The driver calls an operation makes are recorded in  *)
(* the variable calls, in call order, so that ordering properties of the   *)
(* selection loop are state predicates.                                    *)
(***************************************************************************)
EXTENDS Integers, Sequences, FiniteSets, TLC

(***************************************************************************)
(* Bounds of the model                                                     *)
(***************************************************************************)
MaxWidth  == 2      \* widths passed to Initialize / Resize range over 0..MaxWidth
MaxHeight == 1      \* heights range over 0..MaxHeight
MaxFrames == 2      \* a driver completes at most MaxFrames frames between two Initialize
MaxWinWidth  == 2   \* window and frame widths range over 0..MaxWinWidth
MaxWinHeight == 1   \* window and frame heights range over 0..MaxWinHeight
MaxBuffers   == 3   \* back buffers allocated in one run

(***************************************************************************)
(* RenderTypes.h                                                           *)
(***************************************************************************)
GraphicsAPI == {"None", "DX11", "DX12", "Vulkan", "OpenGL"}

Widths  == 0..MaxWidth
Heights == 0..MaxHeight

\* ClearColor: the floats r, g, b, a, each written as the integer number of
\* 1/ColorUnit it holds (ColorUnit is 1.0f).
ColorUnit == 1020

TransparentBlack == <<0, 0, 0, 0>>

\* The default colour and one with components below 0, above 1 and strictly
\* between two 8-bit levels.
ClearColors == {TransparentBlack, <<-1020, 2040, 511, 3>>}

\* RenderConfig, restricted to the fields the pipeline reads.
RenderConfig == [preferredAPI : GraphicsAPI, targetWidth : Widths, targetHeight : Heights,
                 clearColor : ClearColors]

\* The part of m_config read after Initialize.
DefaultConfig == [clearColor |-> TransparentBlack]

\* PixelReadback: width, height, data.size() and data as RGBA pixels.
EmptyReadback == [width |-> 0, height |-> 0, size |-> 0, data |-> <<>>]

\* std::vector::resize(n * 4, 0) on pixels: the first n pixels are kept,
\* missing ones are zero.
ResizeData(data, n) ==
    [i \in 1..n |-> IF i <= Len(data) THEN data[i] ELSE <<0, 0, 0, 0>>]

\* PixelReadback::Allocate on the buffer b
Allocate(b, w, h) ==
    [width |-> w, height |-> h, size |-> w * h * 4, data |-> ResizeData(b.data, w * h)]

\* A pixel produced by the GPU: its value is not followed.
GpuPixel == <<-1, -1, -1, -1>>

\* std::clamp(c, 0.0f, 1.0f)
Clamp01(c) == IF c < 0 THEN 0 ELSE IF c > ColorUnit THEN ColorUnit ELSE c

\* A quantization that drops the + 0.5f.
Quantize_Truncating(c) == (255 * Clamp01(c)) \div ColorUnit

\* static_cast<uint8_t>(std::clamp(c, 0.0f, 1.0f) * 255.0f + 0.5f)
Quantize(c) == (2 * 255 * Clamp01(c) + ColorUnit) \div (2 * ColorUnit)

\* PixelReadback::IsValid
IsValid(b) == b.size # 0 /\ b.width > 0 /\ b.height > 0 /\ b.size = b.width * b.height * 4

(***************************************************************************)
(* Driver instances.  One record type covers both backends; a field a      *)
(* backend does not have keeps its initial value.                          *)
(*   rtv     : DX11 m_renderTexture / m_rtv (created and released together)*)
(*   dsv     : DX11 m_depthTexture / m_dsv                                 *)
(*   staging : DX11 m_stagingTexture                                       *)
(*   held    : DX11 device-level COM objects currently held                *)
(*   buf     : OpenGL m_internalBuffer                                     *)
(***************************************************************************)
NewDriver(api, inst) ==
    [api |-> api, inst |-> inst, initialized |-> FALSE,
     targetWidth |-> 0, targetHeight |-> 0,
     rtv |-> FALSE, dsv |-> FALSE, staging |-> FALSE,
     held |-> {}, buf |-> EmptyReadback,
     frameCounter |-> 0, statsFrameNumber |-> 0,
     targetFormat |-> "RGBA8_UNORM", sampleCount |-> 1,
     rtSamples |-> 0, dsSamples |-> 0]

\* The null unique_ptr<IGraphicsDriver>.
NoDriver == NewDriver("None", 0)

\* RenderTargetDesc.
TargetDesc(w, h, format, depth, samples) ==
    [width |-> w, height |-> h, hasDepth |-> depth, format |-> format, samples |-> samples]

\* RenderTargetDesc with the default format and sample count (the pipeline's
\* descriptor: RGBA8_UNORM, samples 1).
Desc(w, h, depth) == TargetDesc(w, h, "RGBA8_UNORM", depth, 1)

(***************************************************************************)
(* Outcomes of the system calls a backend makes (the environment).         *)
(***************************************************************************)
\* DX11Driver::Initialize: which step fails, if any.
DX11InitOutcomes == {"ok", "factory", "adapters", "device", "desc"}
\* DX11Driver::CreateTarget: which step fails, if any.
TargetOutcomes == {"ok", "rt", "depth", "staging"}

(***************************************************************************)
(* OpenGLDriver (software fallback)                                        *)
(***************************************************************************)
OpenGL_IsSupported(d) == [res |-> TRUE, d |-> d]

OpenGL_Initialize(d) ==
    IF d.initialized THEN [ok |-> TRUE, d |-> d]
    ELSE [ok |-> TRUE,
          d  |-> [d EXCEPT !.initialized = TRUE, !.frameCounter = 0,
                           !.statsFrameNumber = 0]]

\* A Shutdown that leaves the internal buffer allocated.
OpenGL_Shutdown_KeepsBuffer(d) ==
    IF ~d.initialized THEN d
    ELSE [d EXCEPT !.targetWidth = 0, !.targetHeight = 0, !.initialized = FALSE]

OpenGL_Shutdown(d) ==
    IF ~d.initialized THEN d
    ELSE [d EXCEPT !.buf = EmptyReadback, !.targetWidth = 0, !.targetHeight = 0,
                   !.initialized = FALSE]

OpenGL_CreateTarget(d, desc) ==
    IF ~d.initialized THEN [ok |-> FALSE, d |-> d]
    ELSE IF desc.width <= 0 \/ desc.height <= 0 THEN [ok |-> FALSE, d |-> d]
    ELSE [ok |-> TRUE,
          d  |-> [d EXCEPT !.targetWidth = desc.width, !.targetHeight = desc.height,
                           !.buf = Allocate(d.buf, desc.width, desc.height)]]

OpenGL_ResizeTarget(d, w, h) ==
    IF ~d.initialized THEN [ok |-> FALSE, d |-> d]
    ELSE IF w <= 0 \/ h <= 0 THEN [ok |-> FALSE, d |-> d]
    ELSE IF w = d.targetWidth /\ h = d.targetHeight THEN [ok |-> TRUE, d |-> d]
    ELSE [ok |-> TRUE,
          d  |-> [d EXCEPT !.targetWidth = w, !.targetHeight = h,
                           !.buf = Allocate(d.buf, w, h)]]

OpenGL_DestroyTarget(d) ==
    [d EXCEPT !.buf = EmptyReadback, !.targetWidth = 0, !.targetHeight = 0]

OpenGL_BeginFrame(d) ==
    IF ~d.initialized \/ d.targetWidth <= 0 \/ d.targetHeight <= 0
    THEN [ok |-> FALSE, d |-> d]
    ELSE [ok |-> TRUE, d |-> d]

\* Clear writes the quantized colour to every pixel of a valid buffer.
OpenGL_Clear(d, color) ==
    IF ~IsValid(d.buf) THEN d
    ELSE [d EXCEPT !.buf.data =
             [i \in 1..(d.targetWidth * d.targetHeight) |->
                 <<Quantize(color[1]), Quantize(color[2]),
                   Quantize(color[3]), Quantize(color[4])>>]]

OpenGL_EndFrame(d) ==
    IF ~d.initialized THEN [ok |-> FALSE, d |-> d]
    ELSE [ok |-> TRUE,
          d  |-> [d EXCEPT !.frameCounter = d.frameCounter + 1,
                           !.statsFrameNumber = d.frameCounter + 1]]

\* A readback that allocates the output only when it is not valid yet.
OpenGL_ReadbackPixels_KeepsOutputSize(d, output) ==
    IF ~IsValid(d.buf) THEN [ok |-> FALSE, out |-> output]
    ELSE [ok |-> TRUE,
          out |-> IF IsValid(output) THEN output
                  ELSE [Allocate(output, d.targetWidth, d.targetHeight)
                           EXCEPT !.data = d.buf.data]]

OpenGL_ReadbackPixels(d, output) ==
    IF ~IsValid(d.buf) THEN [ok |-> FALSE, out |-> output]
    ELSE [ok |-> TRUE,
          out |-> [Allocate(output, d.targetWidth, d.targetHeight)
                      EXCEPT !.data = d.buf.data]]

(***************************************************************************)
(* DX11Driver                                                              *)
(***************************************************************************)
\* IsSupported builds a throwaway factory / adapter / device in locals; its
\* result depends on the system only.
DX11_IsSupported(d, supported) == [res |-> supported, d |-> d]

\* CreateDevice: the objects held when it returns, per failing step.  Taking
\* the address of a ComPtr releases what it held, so a failing creation
\* leaves that member null and the members not yet reached as they were.
DX11_CreateDevice(d, outcome) ==
    CASE outcome = "factory"  -> [ok |-> FALSE,
                                  d  |-> [d EXCEPT !.held = d.held \ {"factory"}]]
      [] outcome = "adapters" -> [ok |-> FALSE,
                                  d  |-> [d EXCEPT !.held = (d.held \ {"adapter"})
                                                              \cup {"factory"}]]
      [] outcome = "device"   -> [ok |-> FALSE, d |-> [d EXCEPT !.held = {"factory", "adapter"}]]
      [] OTHER                -> [ok |-> TRUE,
                                  d  |-> [d EXCEPT !.held = {"factory", "adapter",
                                                             "device", "context"}]]

DX11_DestroyTarget(d) ==
    [d EXCEPT !.rtv = FALSE, !.dsv = FALSE, !.staging = FALSE,
              !.rtSamples = 0, !.dsSamples = 0,
              !.targetWidth = 0, !.targetHeight = 0]

DX11_ReleaseRenderTarget(d) ==
    [d EXCEPT !.rtv = FALSE, !.dsv = FALSE, !.staging = FALSE,
              !.rtSamples = 0, !.dsSamples = 0]

\* The formats CreateRenderTarget maps to a DXGI colour format.
ColorFormats == {"RGBA8_UNORM", "RGBA16_FLOAT"}

\* ID3D11Device::CheckMultisampleQualityLevels on the device at hand: 4x is
\* supported for the colour formats, 8x is not.
DX11_MsaaSupported(format, samples) == samples = 4

\* The sample count CreateRenderTarget uses for the colour texture.
DX11_ColorSamples(format, samples) ==
    IF samples > 1 /\ ~DX11_MsaaSupported(format, samples) THEN 1 ELSE samples

\* Shutdown without its "not initialized" return.
DX11_Shutdown_Unguarded(d) ==
    [DX11_DestroyTarget(d) EXCEPT !.held = {}, !.initialized = FALSE]

DX11_Shutdown(d) ==
    IF ~d.initialized THEN d
    ELSE [DX11_DestroyTarget(d) EXCEPT !.held = {}, !.initialized = FALSE]

DX11_Initialize(d, outcome) ==
    IF d.initialized THEN [ok |-> TRUE, d |-> d]
    ELSE LET c == DX11_CreateDevice(d, outcome) IN
         IF ~c.ok THEN [ok |-> FALSE, d |-> c.d]
         ELSE IF outcome = "desc"
              THEN [ok |-> FALSE, d |-> DX11_Shutdown(c.d)]   \* EnumerateAdapter failed
              ELSE [ok |-> TRUE,
                    d  |-> [c.d EXCEPT !.initialized = TRUE, !.frameCounter = 0,
                                       !.statsFrameNumber = 0]]

DX11_CreateTarget(d, desc, outcome) ==
    IF ~d.initialized THEN [ok |-> FALSE, d |-> d]
    ELSE IF desc.width <= 0 \/ desc.height <= 0 THEN [ok |-> FALSE, d |-> d]
    ELSE LET d1 == [DX11_DestroyTarget(d) EXCEPT !.targetWidth = desc.width,
                                                 !.targetHeight = desc.height,
                                                 !.targetFormat = desc.format,
                                                 !.sampleCount = desc.samples]
             cs == DX11_ColorSamples(desc.format, desc.samples)
             d2 == [d1 EXCEPT !.rtv = TRUE, !.rtSamples = cs, !.sampleCount = cs]
             d3 == IF desc.hasDepth
                   THEN [d2 EXCEPT !.dsv = TRUE, !.dsSamples = desc.samples]
                   ELSE d2
         IN  IF desc.format \notin ColorFormats \/ outcome = "rt"
             THEN [ok |-> FALSE, d |-> d1]
             ELSE IF desc.hasDepth /\ outcome = "depth"
                  THEN [ok |-> FALSE, d |-> DX11_ReleaseRenderTarget(d2)]
             ELSE IF outcome = "staging"
                  THEN [ok |-> FALSE, d |-> DX11_ReleaseRenderTarget(d3)]
             ELSE [ok |-> TRUE, d |-> [d3 EXCEPT !.staging = TRUE]]

DX11_ResizeTarget(d, w, h, outcome) ==
    IF ~d.initialized THEN [ok |-> FALSE, d |-> d]
    ELSE IF w <= 0 \/ h <= 0 THEN [ok |-> FALSE, d |-> d]
    ELSE IF w = d.targetWidth /\ h = d.targetHeight THEN [ok |-> TRUE, d |-> d]
    ELSE DX11_CreateTarget(d, TargetDesc(w, h, d.targetFormat, d.dsv, d.sampleCount),
                           outcome)

DX11_BeginFrame(d) ==
    IF ~d.initialized \/ ~d.rtv THEN [ok |-> FALSE, d |-> d]
    ELSE [ok |-> TRUE, d |-> d]

DX11_EndFrame(d) ==
    IF ~d.initialized \/ ~d.rtv THEN [ok |-> FALSE, d |-> d]
    ELSE [ok |-> TRUE,
          d  |-> [d EXCEPT !.frameCounter = d.frameCounter + 1,
                           !.statsFrameNumber = d.frameCounter + 1]]

\* ClearRenderTargetView / ClearDepthStencilView change GPU memory only.
DX11_Clear(d, color) == d

\* mapOk: whether ID3D11DeviceContext::Map of the staging texture succeeds.
DX11_ReadbackPixels(d, output, mapOk) ==
    IF ~d.initialized \/ ~d.rtv \/ ~d.staging THEN [ok |-> FALSE, out |-> output]
    ELSE IF ~mapOk THEN [ok |-> FALSE, out |-> output]
    ELSE [ok |-> TRUE,
          out |-> [Allocate(output, d.targetWidth, d.targetHeight)
                      EXCEPT !.data = [i \in 1..(d.targetWidth * d.targetHeight) |->
                                          GpuPixel]]]


(***************************************************************************)
(* Window subsystem: pixel buffers.  A buffer is the flat sequence of its  *)
(* bytes; the C index k is position k + 1.                                 *)
(***************************************************************************)
\* uint8_t
Byte == 0..255

\* The integer nearest to n / d (halves upward), for n >= 0 and d > 0.
RoundNearest(n, d) == (2 * n + d) \div (2 * d)

\* One channel of the "premultiply" branch, truncating: c * a / 255.
Premultiply_Truncating(c, a) == (c * a) \div 255

\* One channel of the "premultiply" branch: static_cast<uint8_t>((c * a + 127) / 255).
Premultiply(c, a) == ((c * a + 127) \div 255) % 256

\* One iteration of a conversion loop that swaps red and blue and leaves the
\* colour channels straight (not multiplied by alpha).
ConvertPixel_Straight(r, g, b, a) == <<b, g, r, a>>

\* One iteration of the conversion loop that keeps the source's byte order.
ConvertPixel_NoSwizzle(r, g, b, a) ==
    IF a = 255 THEN <<r, g, b, 255>>
    ELSE IF a = 0 THEN <<0, 0, 0, 0>>
    ELSE <<Premultiply(r, a), Premultiply(g, a), Premultiply(b, a), a>>

\* One iteration of the conversion loop: in[0..3] = r, g, b, a to out[0..3].
ConvertPixel(r, g, b, a) ==
    IF a = 255 THEN <<b, g, r, 255>>
    ELSE IF a = 0 THEN <<0, 0, 0, 0>>
    ELSE <<Premultiply(b, a), Premultiply(g, a), Premultiply(r, a), a>>

\* TransparentWindow::ConvertRGBAToBGRAPremul: the bytes written to m_pixels
\* for the first w * h pixels of src.
RECURSIVE ConvertFrom(_, _, _)
ConvertFrom(src, i, totalPixels) ==
    IF i >= totalPixels THEN <<>>
    ELSE ConvertPixel(src[4 * i + 1], src[4 * i + 2], src[4 * i + 3], src[4 * i + 4])
         \o ConvertFrom(src, i + 1, totalPixels)

ConvertRGBAToBGRAPremul(src, w, h) == ConvertFrom(src, 0, w * h)

\* std::memset(m_pixels, 0, w * h * 4)
ZeroBytes(n) == [k \in 1..n |-> 0]

(***************************************************************************)
(* ClickThrough.  m_buffer is a buffer address (0 is nullptr); heap maps   *)
(* an address to [bytes, freed].                                           *)
(***************************************************************************)
DefaultThreshold == 10

NewClickThrough == [m_buffer |-> 0, m_width |-> 0, m_height |-> 0,
                    m_threshold |-> DefaultThreshold]

\* ClickThrough::SetThreshold
CT_SetThreshold(ct, threshold) == [ct EXCEPT !.m_threshold = threshold]

\* ClickThrough::UpdateBuffer
CT_UpdateBuffer(ct, bgraBuffer, width, height) ==
    IF bgraBuffer = 0 \/ width <= 0 \/ height <= 0
    THEN [ct EXCEPT !.m_buffer = 0, !.m_width = 0, !.m_height = 0]
    ELSE [ct EXCEPT !.m_buffer = bgraBuffer, !.m_width = width, !.m_height = height]

\* The bounds check of GetAlphaAt.
CT_OutOfBounds(ct, x, y) ==
    ct.m_buffer = 0 \/ x < 0 \/ y < 0 \/ x >= ct.m_width \/ y >= ct.m_height

\* A byte offset that addresses the pixel's first (blue) byte.
CT_ByteOffset_Blue(c, x, y) == (y * c.m_width + x) * 4

\* The byte GetAlphaAt returns is m_buffer[byteOffset]; the read is defined
\* when the buffer is allocated and the offset lies inside it.
CT_ByteOffset(ct, x, y) == (y * ct.m_width + x) * 4 + 3

CT_ReadDefined(ct, heap, x, y) ==
    /\ ct.m_buffer \in DOMAIN heap
    /\ ~heap[ct.m_buffer].freed
    /\ CT_ByteOffset(ct, x, y) + 1 \in DOMAIN heap[ct.m_buffer].bytes

\* ClickThrough::GetAlphaAt, where the read is defined.
CT_GetAlphaAt(ct, heap, x, y) ==
    IF CT_OutOfBounds(ct, x, y) THEN 0
    ELSE heap[ct.m_buffer].bytes[CT_ByteOffset(ct, x, y) + 1]

\* The comparison of IsTransparentAt with its operands exchanged.
CT_Compare_Strict(alpha, threshold) == alpha < threshold

\* The comparison of IsTransparentAt: GetAlphaAt(x, y) <= m_threshold.
CT_Compare(alpha, threshold) == alpha <= threshold

\* ClickThrough::IsTransparentAt / IsOpaqueAt called with no other thread running.
CT_IsTransparentAt(ct, heap, x, y) == CT_Compare(CT_GetAlphaAt(ct, heap, x, y), ct.m_threshold)

CT_IsOpaqueAt(ct, heap, x, y) == ~CT_Compare(CT_GetAlphaAt(ct, heap, x, y), ct.m_threshold)


(***************************************************************************)
(* State                                                                   *)
(***************************************************************************)
VARIABLES
    m_driver,        \* RenderPipeline::m_driver (NoDriver = null)
    m_surface,       \* RenderPipeline::m_surface (GPUSurface)
    m_initialized,   \* RenderPipeline::m_initialized
    m_frameActive,   \* RenderPipeline::m_frameActive
    m_lastStats,     \* RenderPipeline::m_lastStats.frameNumber
    m_config,        \* RenderPipeline::m_config (its clearColor)
    scripted,        \* TRUE: the registry's factories build instrumented test doubles
    ret,             \* the last pipeline operation and its result
    calls,           \* the driver calls the last operation made, in order
    lastSel,         \* the driver selection the last operation ran, if any
    initFailure,     \* how the most recent Initialize that ran the selection ended
    openBegins,      \* successful BeginFrame calls since the last EndFrame / Shutdown call
    lastFrameCall,   \* the most recent of the BeginFrame / EndFrame calls
    forcedEnd,       \* the last Shutdown forced an active frame off, and only
                     \* Initialize and BeginFrame calls have followed it
    win,             \* the TransparentWindow
    ct,              \* its ClickThrough (*m_clickThrough)
    heap,            \* the DIB sections allocated so far, by address
    mutex,           \* owners of TransparentWindow::m_bufferMutex and ClickThrough::m_mutex
    frameT,          \* the frame thread: position and locals
    msgT,            \* the message thread: position and locals
    obs,             \* what the last hit-test query did and returned
    pushed,          \* the source frame of the last UpdateFrame, if it succeeded
    conv,            \* one pixel taken through conversion and hit test
    drv,             \* a driver instance used directly through IGraphicsDriver
    surf,            \* a GPUSurface used directly (on drv)
    out,             \* the PixelReadback handed to drv's ReadbackPixels
    dret,            \* the last direct call: its arguments, result and driver calls
    fade             \* an OpacityController and the thread that calls it

pipelineVars == <<m_driver, m_surface, m_initialized, m_frameActive, m_lastStats, m_config,
                  scripted, ret, calls, lastSel, initFailure, openBegins, lastFrameCall,
                  forcedEnd>>

windowVars == <<win, ct, heap, mutex, frameT, msgT, obs, pushed>>

directVars == <<drv, surf, out, dret>>

vars == <<pipelineVars, windowVars, conv, directVars, fade>>

(***************************************************************************)
(* Instrumented doubles (IGraphicsDriver): a double wraps a backend and    *)
(* returns from IsSupported and Initialize what the test scripted; its     *)
(* other methods are the backend's.                                        *)
(***************************************************************************)
Scripted_IsSupported(d, supported) == [res |-> supported, d |-> d]

Scripted_Initialize(d, outcome) ==
    IF outcome # "ok" THEN [ok |-> FALSE, d |-> d]
    ELSE IF d.api = "DX11" THEN DX11_Initialize(d, "ok")
    ELSE OpenGL_Initialize(d)

\* What IsSupported / Initialize can return for an entry of the registry
\* (doubles: whether the factories build doubles).
SupportOutcomes(api, doubles) == IF api = "OpenGL" /\ ~doubles THEN {TRUE} ELSE BOOLEAN

InitOutcomes(api, doubles) ==
    IF doubles THEN {"ok", "fail"}
    ELSE IF api = "DX11" THEN DX11InitOutcomes ELSE {"ok"}

(***************************************************************************)
(* Virtual dispatch through IGraphicsDriver                                *)
(***************************************************************************)
Drv_IsSupported(d, supported) ==
    IF scripted THEN Scripted_IsSupported(d, supported)
    ELSE IF d.api = "DX11" THEN DX11_IsSupported(d, supported)
    ELSE OpenGL_IsSupported(d)

Drv_Initialize(d, outcome) ==
    IF scripted THEN Scripted_Initialize(d, outcome)
    ELSE IF d.api = "DX11" THEN DX11_Initialize(d, outcome)
    ELSE OpenGL_Initialize(d)

Drv_Shutdown(d) == IF d.api = "DX11" THEN DX11_Shutdown(d) ELSE OpenGL_Shutdown(d)

Drv_CreateTarget(d, desc, outcome) ==
    IF d.api = "DX11" THEN DX11_CreateTarget(d, desc, outcome) ELSE OpenGL_CreateTarget(d, desc)

Drv_ResizeTarget(d, w, h, outcome) ==
    IF d.api = "DX11" THEN DX11_ResizeTarget(d, w, h, outcome) ELSE OpenGL_ResizeTarget(d, w, h)

Drv_DestroyTarget(d) ==
    IF d.api = "DX11" THEN DX11_DestroyTarget(d) ELSE OpenGL_DestroyTarget(d)

Drv_BeginFrame(d) == IF d.api = "DX11" THEN DX11_BeginFrame(d) ELSE OpenGL_BeginFrame(d)

Drv_Clear(d, color) ==
    IF d.api = "DX11" THEN DX11_Clear(d, color) ELSE OpenGL_Clear(d, color)

Drv_EndFrame(d) == IF d.api = "DX11" THEN DX11_EndFrame(d) ELSE OpenGL_EndFrame(d)

Drv_ReadbackPixels(d, output, mapOk) ==
    IF d.api = "DX11" THEN DX11_ReadbackPixels(d, output, mapOk)
    ELSE OpenGL_ReadbackPixels(d, output)

\* One entry of calls: operation, instance it was made on, its result, and
\* whether it left the instance's state as it was.
Call(op, d, res, same) ==
    [op |-> op, api |-> d.api, inst |-> d.inst, res |-> res, same |-> same]

(***************************************************************************)
(* GPUSurface.  hasDriver: m_driver is non-null (it then points to the     *)
(* pipeline's driver).                                                     *)
(***************************************************************************)
NewSurface == [created |-> FALSE, hasDriver |-> FALSE, width |-> 0, height |-> 0,
               readback |-> EmptyReadback]

GPUSurface_Destroy(s, d) ==
    IF ~s.created THEN [s |-> s, d |-> d, log |-> <<>>]
    ELSE LET destroy == s.hasDriver /\ d.initialized IN
         [s   |-> NewSurface,
          d   |-> IF destroy THEN Drv_DestroyTarget(d) ELSE d,
          log |-> IF destroy THEN <<Call("DestroyTarget", d, TRUE, FALSE)>> ELSE <<>>]

\* Create that destroys the existing surface before it validates the
\* descriptor.
GPUSurface_Create_DestroysFirst(s, d, desc, outcome) ==
    IF d = NoDriver THEN [ok |-> FALSE, s |-> s, d |-> d, log |-> <<>>]
    ELSE IF ~d.initialized THEN [ok |-> FALSE, s |-> s, d |-> d, log |-> <<>>]
    ELSE LET x  == GPUSurface_Destroy(s, d)
             s1 == [x.s EXCEPT !.hasDriver = TRUE, !.width = desc.width,
                               !.height = desc.height]
             c  == Drv_CreateTarget(x.d, desc, outcome)
             lg == x.log \o <<Call("CreateTarget", x.d, c.ok, c.d = x.d)>>
         IN  IF desc.width <= 0 \/ desc.height <= 0
             THEN [ok |-> FALSE, s |-> x.s, d |-> x.d, log |-> x.log]
             ELSE IF ~c.ok
             THEN [ok |-> FALSE, s |-> [s1 EXCEPT !.hasDriver = FALSE], d |-> c.d, log |-> lg]
             ELSE [ok |-> TRUE,
                   s  |-> [s1 EXCEPT !.readback = Allocate(s1.readback,
                                                           desc.width, desc.height),
                                     !.created = TRUE],
                   d  |-> c.d, log |-> lg]

GPUSurface_Create(s, d, desc, outcome) ==
    IF d = NoDriver THEN [ok |-> FALSE, s |-> s, d |-> d, log |-> <<>>]
    ELSE IF ~d.initialized THEN [ok |-> FALSE, s |-> s, d |-> d, log |-> <<>>]
    ELSE IF desc.width <= 0 \/ desc.height <= 0
         THEN [ok |-> FALSE, s |-> s, d |-> d, log |-> <<>>]
    ELSE LET x  == GPUSurface_Destroy(s, d)
             s1 == [x.s EXCEPT !.hasDriver = TRUE, !.width = desc.width,
                               !.height = desc.height]
             c  == Drv_CreateTarget(x.d, desc, outcome)
             lg == x.log \o <<Call("CreateTarget", x.d, c.ok, c.d = x.d)>>
         IN  IF ~c.ok
             THEN [ok |-> FALSE, s |-> [s1 EXCEPT !.hasDriver = FALSE], d |-> c.d, log |-> lg]
             ELSE [ok |-> TRUE,
                   s  |-> [s1 EXCEPT !.readback = Allocate(s1.readback,
                                                           desc.width, desc.height),
                                     !.created = TRUE],
                   d  |-> c.d, log |-> lg]

\* Resize without the "no change needed" return.
GPUSurface_Resize_NoShortcut(s, d, w, h, outcome) ==
    IF ~s.created \/ ~s.hasDriver THEN [ok |-> FALSE, s |-> s, d |-> d, log |-> <<>>]
    ELSE IF w <= 0 \/ h <= 0 THEN [ok |-> FALSE, s |-> s, d |-> d, log |-> <<>>]
    ELSE LET r  == Drv_ResizeTarget(d, w, h, outcome)
             lg == <<Call("ResizeTarget", d, r.ok, r.d = d)>>
         IN  IF ~r.ok THEN [ok |-> FALSE, s |-> s, d |-> r.d, log |-> lg]
             ELSE [ok |-> TRUE,
                   s  |-> [s EXCEPT !.width = w, !.height = h,
                                    !.readback = Allocate(s.readback, w, h)],
                   d  |-> r.d, log |-> lg]

GPUSurface_Resize(s, d, w, h, outcome) ==
    IF ~s.created \/ ~s.hasDriver THEN [ok |-> FALSE, s |-> s, d |-> d, log |-> <<>>]
    ELSE IF w <= 0 \/ h <= 0 THEN [ok |-> FALSE, s |-> s, d |-> d, log |-> <<>>]
    ELSE IF w = s.width /\ h = s.height THEN [ok |-> TRUE, s |-> s, d |-> d, log |-> <<>>]
    ELSE LET r  == Drv_ResizeTarget(d, w, h, outcome)
             lg == <<Call("ResizeTarget", d, r.ok, r.d = d)>>
         IN  IF ~r.ok THEN [ok |-> FALSE, s |-> s, d |-> r.d, log |-> lg]
             ELSE [ok |-> TRUE,
                   s  |-> [s EXCEPT !.width = w, !.height = h,
                                    !.readback = Allocate(s.readback, w, h)],
                   d  |-> r.d, log |-> lg]

\* ReadPixels without its "surface not created" return.
GPUSurface_ReadPixels_Unchecked(s, d, mapOk) ==
    LET r == Drv_ReadbackPixels(d, s.readback, mapOk) IN
    [ok  |-> r.ok,
     s   |-> [s EXCEPT !.readback = r.out],
     log |-> <<Call("ReadbackPixels", d, r.ok, TRUE)>>]

GPUSurface_ReadPixels(s, d, mapOk) ==
    IF ~s.created \/ ~s.hasDriver THEN [ok |-> FALSE, s |-> s, log |-> <<>>]
    ELSE LET r == Drv_ReadbackPixels(d, s.readback, mapOk) IN
         [ok  |-> r.ok,
          s   |-> [s EXCEPT !.readback = r.out],
          log |-> <<Call("ReadbackPixels", d, r.ok, TRUE)>>]


(***************************************************************************)
(* RenderPipeline: driver registry                                         *)
(***************************************************************************)
DX11Priority   == 10
OpenGLPriority == 100

\* The entries in push_back order.
PushedEntries == << [api |-> "DX11",   priority |-> DX11Priority],
                    [api |-> "OpenGL", priority |-> OpenGLPriority] >>

\* std::sort with the comparator a.priority < b.priority.
RECURSIVE InsertByPriority(_, _)
InsertByPriority(e, sorted) ==
    IF sorted = <<>> THEN <<e>>
    ELSE IF e.priority < Head(sorted).priority THEN <<e>> \o sorted
    ELSE <<Head(sorted)>> \o InsertByPriority(e, Tail(sorted))

RECURSIVE SortByPriority(_)
SortByPriority(entries) ==
    IF entries = <<>> THEN <<>>
    ELSE InsertByPriority(Head(entries), SortByPriority(Tail(entries)))

\* A registry sorted the wrong way round (highest priority number first).
RECURSIVE SortDescending(_)
SortDescending(entries) ==
    IF entries = <<>> THEN <<>>
    ELSE LET rest == SortDescending(Tail(entries))
             e    == Head(entries)
             before == SelectSeq(rest, LAMBDA x : x.priority >= e.priority)
             after  == SelectSeq(rest, LAMBDA x : x.priority < e.priority)
         IN  before \o <<e>> \o after

m_driverRegistry_Descending == SortDescending(PushedEntries)

\* RenderPipeline::RegisterDrivers
m_driverRegistry == SortByPriority(PushedEntries)

RegisteredAPIs == {m_driverRegistry[i].api : i \in 1..Len(m_driverRegistry)}

(***************************************************************************)
(* RenderPipeline::SelectAndInitDriver                                     *)
(*   sup[api] : what IsSupported returns on an instance of that backend    *)
(*   ini[api] : how Initialize ends on an instance of that backend         *)
(***************************************************************************)
\* Initialize whatever the probe said.
TryEntry_NoProbe(api, inst, sup, ini) ==
    LET d0 == NewDriver(api, inst)
        s  == Drv_IsSupported(d0, sup[api])
        i  == Drv_Initialize(s.d, ini[api])
        made  == Call("factory", d0, TRUE, TRUE)
        probe == Call("IsSupported", d0, s.res, s.d = d0)
        init  == Call("Initialize", d0, i.ok, i.d = s.d)
        gone  == Call("destroy", d0, TRUE, TRUE)
    IN  IF i.ok THEN [ok |-> TRUE,  d |-> i.d,      log |-> <<made, probe, init>>]
        ELSE         [ok |-> FALSE, d |-> NoDriver, log |-> <<made, probe, init, gone>>]

\* One candidate: factory(), IsSupported(), Initialize(); the unique_ptr local
\* destroys the instance unless it was moved into m_driver.
TryEntry(api, inst, sup, ini) ==
    LET d0 == NewDriver(api, inst)
        s  == Drv_IsSupported(d0, sup[api])
        i  == Drv_Initialize(s.d, ini[api])
        made  == Call("factory", d0, TRUE, TRUE)
        probe == Call("IsSupported", d0, s.res, s.d = d0)
        init  == Call("Initialize", d0, i.ok, i.d = s.d)
        gone  == Call("destroy", d0, TRUE, TRUE)
    IN  IF ~s.res THEN [ok |-> FALSE, d |-> NoDriver, log |-> <<made, probe, gone>>]
        ELSE IF i.ok THEN [ok |-> TRUE,  d |-> i.d,      log |-> <<made, probe, init>>]
        ELSE              [ok |-> FALSE, d |-> NoDriver, log |-> <<made, probe, init, gone>>]

\* The first loop with its candidate held in a variable that outlives the
\* loop: a rejected preferred instance is not destroyed before the fallbacks
\* are built.
PreferredPass_Retained(pref, sup, ini) ==
    IF pref # "None" /\ \E i \in 1..Len(m_driverRegistry) : m_driverRegistry[i].api = pref
    THEN LET t == TryEntry(pref, 1, sup, ini) IN
         [ok |-> t.ok, d |-> t.d,
          log |-> SelectSeq(t.log, LAMBDA c : c.op # "destroy")]
    ELSE [ok |-> FALSE, d |-> NoDriver, log |-> <<>>]

\* The first loop: the entry of the preferred API, if there is one.
PreferredPass(pref, sup, ini) ==
    IF pref # "None" /\ \E i \in 1..Len(m_driverRegistry) : m_driverRegistry[i].api = pref
    THEN TryEntry(pref, 1, sup, ini)
    ELSE [ok |-> FALSE, d |-> NoDriver, log |-> <<>>]

\* The second loop without its "skip the preferred API" test.
RECURSIVE FallbackPass_NoSkip(_, _, _, _, _)
FallbackPass_NoSkip(i, inst, pref, sup, ini) ==
    IF i > Len(m_driverRegistry) THEN [ok |-> FALSE, d |-> NoDriver, log |-> <<>>]
    ELSE LET t == TryEntry(m_driverRegistry[i].api, inst, sup, ini) IN
         IF t.ok THEN t
         ELSE LET r == FallbackPass_NoSkip(i + 1, inst + 1, pref, sup, ini) IN
              [ok |-> r.ok, d |-> r.d, log |-> t.log \o r.log]

\* The second loop, from registry index i on; inst numbers the next instance.
RECURSIVE FallbackPass(_, _, _, _, _)
FallbackPass(i, inst, pref, sup, ini) ==
    IF i > Len(m_driverRegistry) THEN [ok |-> FALSE, d |-> NoDriver, log |-> <<>>]
    ELSE IF m_driverRegistry[i].api = pref THEN FallbackPass(i + 1, inst, pref, sup, ini)
    ELSE LET t == TryEntry(m_driverRegistry[i].api, inst, sup, ini) IN
         IF t.ok THEN t
         ELSE LET r == FallbackPass(i + 1, inst + 1, pref, sup, ini) IN
              [ok |-> r.ok, d |-> r.d, log |-> t.log \o r.log]

\* A selection that ignores the preference and walks the registry only.
SelectAndInitDriver_NoPreference(pref, sup, ini) == FallbackPass(1, 1, "None", sup, ini)

SelectAndInitDriver(pref, sup, ini) ==
    LET p == PreferredPass(pref, sup, ini) IN
    IF p.ok THEN p
    ELSE LET f == FallbackPass(1, IF p.log = <<>> THEN 1 ELSE 2, pref, sup, ini) IN
         [ok |-> f.ok, d |-> f.d, log |-> p.log \o f.log]


(***************************************************************************)
(* RenderPipeline::Initialize                                              *)
(***************************************************************************)
Ret(op, ok) == [op |-> op, ok |-> ok]

\* The scripts of one Initialize: sup[a] is what IsSupported returns on an
\* instance of backend a, ini[a] how its Initialize ends.  ini[a] is read
\* only when sup[a] holds, so scripts that differ only in an unread entry
\* are one script.
EnvironmentsOf(doubles) ==
    {e \in [sup : [RegisteredAPIs -> BOOLEAN],
            ini : [RegisteredAPIs -> DX11InitOutcomes \cup {"fail"}]] :
        \A a \in RegisteredAPIs :
            /\ e.sup[a] \in SupportOutcomes(a, doubles)
            /\ e.ini[a] \in InitOutcomes(a, doubles)
            /\ ~e.sup[a] => e.ini[a] = "ok"}

RealEnvironments     == EnvironmentsOf(FALSE)
ScriptedEnvironments == EnvironmentsOf(TRUE)

Environments == IF scripted THEN ScriptedEnvironments ELSE RealEnvironments

\* The driver the selection contract names: the preferred entry if it is
\* registered, supported and initializes; otherwise the supported and
\* initializing entry of least priority number among the others.
ExpectedDriver(pref, sup, ini) ==
    LET Usable(a) == sup[a] /\ ini[a] = "ok"
        others == {i \in 1..Len(PushedEntries) :
                      PushedEntries[i].api # pref /\ Usable(PushedEntries[i].api)}
    IN  IF pref # "None" /\ pref \in RegisteredAPIs /\ Usable(pref) THEN pref
        ELSE IF others = {} THEN "None"
        ELSE PushedEntries[CHOOSE i \in others : \A j \in others :
                 PushedEntries[i].priority <= PushedEntries[j].priority].api

NoSel == [ran |-> FALSE, pref |-> "None", expected |-> "None", api |-> "None"]

\* SelectAndInitDriver returned true although no driver was selected: the
\* result of a caller that does not test it.
NoDriverFound_Ignored(sel) ==
    [ok |-> TRUE, initialized |-> TRUE, frameActive |-> FALSE,
     driver |-> m_driver, surface |-> m_surface, log |-> sel.log, failure |-> "none"]

\* SelectAndInitDriver returned false.
NoDriverFound(sel) ==
    [ok |-> FALSE, initialized |-> m_initialized, frameActive |-> m_frameActive,
     driver |-> m_driver, surface |-> m_surface, log |-> sel.log, failure |-> "nodriver"]

\* Surface creation failed and the selected driver is kept as it is.
SurfaceFailed_KeepDriver(sel, c) ==
    [ok |-> FALSE, initialized |-> m_initialized, frameActive |-> m_frameActive,
     driver |-> c.d, surface |-> c.s, log |-> sel.log \o c.log, failure |-> "surface"]

\* m_surface.Create returned false: m_driver->Shutdown(); m_driver.reset().
SurfaceFailed(sel, c) ==
    LET sd == Drv_Shutdown(c.d) IN
    [ok |-> FALSE, initialized |-> m_initialized, frameActive |-> m_frameActive,
     driver |-> NoDriver, surface |-> c.s,
     log |-> sel.log \o c.log \o <<Call("Shutdown", c.d, ~sd.initialized, sd = c.d),
                                   Call("destroy", c.d, TRUE, TRUE)>>,
     failure |-> "surface"]

\* The body of Initialize on a pipeline that is not initialized, given the
\* result sel of SelectAndInitDriver.
InitializeOutcome(cfg, sel, tgt) ==
    IF ~sel.ok THEN NoDriverFound(sel)
    ELSE LET c == GPUSurface_Create(m_surface, sel.d,
                                    Desc(cfg.targetWidth, cfg.targetHeight, TRUE), tgt)
         IN  IF ~c.ok THEN SurfaceFailed(sel, c)
             ELSE [ok |-> TRUE, initialized |-> TRUE, frameActive |-> FALSE,
                   driver |-> c.d, surface |-> c.s, log |-> sel.log \o c.log,
                   failure |-> "none"]

\* The target-creation outcomes that can differ for the driver selected.
TargetScripts(cfg, sel) ==
    IF sel.ok /\ sel.d.api = "DX11" /\ cfg.targetWidth > 0 /\ cfg.targetHeight > 0
    THEN TargetOutcomes ELSE {"ok"}

\* The configurations passed to Initialize: selection and surface creation
\* do not read the clear colour, so they are computed once per base
\* configuration.  The tests that install doubles keep the default colour.
DefaultColorConfigs == {c \in RenderConfig : c.clearColor = TransparentBlack}

ConfigColors == IF scripted THEN {TransparentBlack} ELSE ClearColors

\* An Initialize that never takes the early return.
Initialize_ReturnsEarly_Never == FALSE

\* if (m_initialized) { warn; return true; }
Initialize_ReturnsEarly == m_initialized

Initialize ==
    \/ /\ Initialize_ReturnsEarly
       /\ ret' = Ret("Initialize", TRUE)
       /\ calls' = <<>>
       /\ lastSel' = NoSel
       /\ UNCHANGED <<m_driver, m_surface, m_initialized, m_frameActive, m_config,
                      m_lastStats, scripted, initFailure, openBegins, lastFrameCall,
                      forcedEnd>>
       /\ UNCHANGED <<windowVars, fade, conv, directVars>>
    \/ /\ ~Initialize_ReturnsEarly
       /\ \E base \in DefaultColorConfigs, env \in Environments :
           \E sel \in {SelectAndInitDriver(base.preferredAPI, env.sup, env.ini)} :
            \E tgt \in TargetScripts(base, sel) :
             \E o \in {InitializeOutcome(base, sel, tgt)} :
              \E cfg \in {[base EXCEPT !.clearColor = c] : c \in ConfigColors} :
                 /\ m_config' = [clearColor |-> cfg.clearColor]
                 /\ m_driver' = o.driver
                 /\ m_surface' = o.surface
                 /\ m_initialized' = o.initialized
                 /\ m_frameActive' = o.frameActive
                 /\ ret' = Ret("Initialize", o.ok)
                 /\ calls' = o.log
                 /\ lastSel' = [ran |-> TRUE, pref |-> cfg.preferredAPI,
                                expected |-> ExpectedDriver(cfg.preferredAPI,
                                                            env.sup, env.ini),
                                api |-> sel.d.api]
                 /\ initFailure' = o.failure
                 /\ UNCHANGED <<m_lastStats, scripted, openBegins, lastFrameCall, forcedEnd>>
                 /\ UNCHANGED <<windowVars, fade, conv, directVars>>

(***************************************************************************)
(* RenderPipeline::Shutdown                                                *)
(***************************************************************************)
\* A Shutdown that leaves the frame-active flag as it finds it.
ForceFrameEnd_Skipped(frameActive) == frameActive

\* if (m_frameActive) { warn; m_frameActive = false; }
ForceFrameEnd(frameActive) == IF frameActive THEN FALSE ELSE frameActive

Shutdown ==
    /\ ret' = Ret("Shutdown", TRUE)
    /\ lastSel' = NoSel
    /\ openBegins' = 0
    /\ forcedEnd' = (m_initialized /\ m_frameActive)
    /\ IF ~m_initialized
       THEN /\ calls' = <<>>
            /\ UNCHANGED <<m_driver, m_surface, m_initialized, m_frameActive>>
       ELSE \E x \in {GPUSurface_Destroy(m_surface, m_driver)} :
            /\ m_frameActive' = ForceFrameEnd(m_frameActive)
            /\ m_surface' = x.s
            /\ m_driver' = NoDriver
            /\ calls' = IF m_driver = NoDriver THEN x.log
                        ELSE x.log \o <<Call("Shutdown", x.d, TRUE, FALSE),
                                        Call("destroy", x.d, TRUE, TRUE)>>
            /\ m_initialized' = FALSE
    /\ UNCHANGED <<m_lastStats, m_config, scripted, initFailure, lastFrameCall>>
    /\ UNCHANGED <<windowVars, fade, conv, directVars>>

(***************************************************************************)
(* RenderPipeline::BeginFrame / EndFrame                                   *)
(***************************************************************************)
\* The early returns of BeginFrame without the frame-active test.
BeginFrame_Rejects_Nested == ~m_initialized \/ m_driver = NoDriver

\* The early returns of BeginFrame.
BeginFrame_Rejects == ~m_initialized \/ m_driver = NoDriver \/ m_frameActive

BeginFrame ==
    /\ lastSel' = NoSel
    /\ lastFrameCall' = "BeginFrame"
    /\ IF BeginFrame_Rejects
       THEN /\ ret' = Ret("BeginFrame", FALSE)
            /\ calls' = <<>>
            /\ UNCHANGED <<m_driver, m_frameActive, openBegins>>
       ELSE \E b \in {Drv_BeginFrame(m_driver)} :
            /\ ret' = Ret("BeginFrame", b.ok)
            /\ IF ~b.ok
               THEN /\ m_driver' = b.d
                    /\ calls' = <<Call("BeginFrame", m_driver, FALSE, TRUE)>>
                    /\ UNCHANGED <<m_frameActive, openBegins>>
               ELSE /\ m_driver' = Drv_Clear(b.d, m_config.clearColor)
                    /\ calls' = <<Call("BeginFrame", m_driver, TRUE, TRUE),
                                  Call("Clear", m_driver, TRUE,
                                       Drv_Clear(b.d, m_config.clearColor) = b.d),
                                  Call("SetViewport", m_driver, TRUE, TRUE)>>
                    /\ m_frameActive' = TRUE
                    /\ openBegins' = openBegins + 1
    /\ UNCHANGED <<m_surface, m_initialized, m_lastStats, m_config, scripted, initFailure,
                   forcedEnd>>
    /\ UNCHANGED <<windowVars, fade, conv, directVars>>

\* The early returns of EndFrame without the frame-active test.
EndFrame_Rejects_Unpaired == ~m_initialized \/ m_driver = NoDriver

\* The early returns of EndFrame.
EndFrame_Rejects == ~m_initialized \/ m_driver = NoDriver \/ ~m_frameActive

\* m_frameActive after the driver's EndFrame, kept set when the driver failed.
EndFrame_FrameActiveAfter_KeptOnFailure(ok) == ~ok

\* m_frameActive after the driver's EndFrame has returned ok: cleared on the
\* failure path and on the success path.
EndFrame_FrameActiveAfter(ok) == FALSE

EndFrame ==
    /\ EndFrame_Rejects \/ m_driver.frameCounter < MaxFrames
    /\ lastSel' = NoSel
    /\ lastFrameCall' = "EndFrame"
    /\ openBegins' = 0
    /\ forcedEnd' = FALSE
    /\ IF EndFrame_Rejects
       THEN /\ ret' = Ret("EndFrame", FALSE)
            /\ calls' = <<>>
            /\ UNCHANGED <<m_driver, m_frameActive, m_lastStats>>
       ELSE \E e \in {Drv_EndFrame(m_driver)} :
            /\ m_driver' = e.d
            /\ ret' = Ret("EndFrame", e.ok)
            /\ m_frameActive' = EndFrame_FrameActiveAfter(e.ok)
            /\ IF ~e.ok
               THEN /\ calls' = <<Call("EndFrame", m_driver, FALSE, TRUE)>>
                    /\ UNCHANGED m_lastStats
               ELSE /\ calls' = <<Call("EndFrame", m_driver, TRUE, FALSE),
                                  Call("GetFrameStats", e.d, TRUE, TRUE)>>
                    /\ m_lastStats' = e.d.statsFrameNumber
    /\ UNCHANGED <<m_surface, m_initialized, m_config, scripted, initFailure>>
    /\ UNCHANGED <<windowVars, fade, conv, directVars>>

(***************************************************************************)
(* RenderPipeline::ReadbackFrame / Resize                                  *)
(***************************************************************************)
\* The early returns of ReadbackFrame without the frame-active test.
ReadbackFrame_Rejects_MidFrame == ~m_initialized

\* The early returns of ReadbackFrame.
ReadbackFrame_Rejects == ~m_initialized \/ m_frameActive

ReadbackFrame ==
    \E mapOk \in (IF m_driver.api = "DX11" THEN BOOLEAN ELSE {TRUE}) :
        /\ lastSel' = NoSel
        /\ IF ReadbackFrame_Rejects
           THEN /\ ret' = Ret("ReadbackFrame", FALSE)
                /\ calls' = <<>>
                /\ UNCHANGED m_surface
           ELSE \E r \in {GPUSurface_ReadPixels(m_surface, m_driver, mapOk)} :
                /\ ret' = Ret("ReadbackFrame", r.ok)
                /\ calls' = r.log
                /\ m_surface' = r.s
        /\ forcedEnd' = FALSE
        /\ UNCHANGED <<m_driver, m_initialized, m_frameActive, m_lastStats, m_config,
                       scripted, initFailure, openBegins, lastFrameCall>>
        /\ UNCHANGED <<windowVars, fade, conv, directVars>>

\* The early returns of Resize without the frame-active test.
Resize_Rejects_MidFrame == ~m_initialized

\* The early returns of Resize.
Resize_Rejects == ~m_initialized \/ m_frameActive

Resize ==
    \E w \in Widths, h \in Heights,
       tgt \in (IF m_driver.api = "DX11" THEN TargetOutcomes ELSE {"ok"}) :
        /\ lastSel' = NoSel
        /\ IF Resize_Rejects
           THEN /\ ret' = Ret("Resize", FALSE)
                /\ calls' = <<>>
                /\ UNCHANGED <<m_surface, m_driver>>
           ELSE \E r \in {GPUSurface_Resize(m_surface, m_driver, w, h, tgt)} :
                /\ ret' = Ret("Resize", r.ok)
                /\ calls' = r.log
                /\ m_surface' = r.s
                /\ m_driver' = r.d
        /\ forcedEnd' = FALSE
        /\ UNCHANGED <<m_initialized, m_frameActive, m_lastStats, m_config,
                       scripted, initFailure, openBegins, lastFrameCall>>
        /\ UNCHANGED <<windowVars, fade, conv, directVars>>

(***************************************************************************)
(* TransparentWindow.  m_memDC and m_dib are non-null exactly when         *)
(* m_pixels is, so m_pixels stands for the three.                          *)
(***************************************************************************)
NewWindow == [m_initialized |-> FALSE, m_hwnd |-> FALSE,
              m_pixels |-> 0, m_bufW |-> 0, m_bufH |-> 0,
              m_width |-> 0, m_height |-> 0, m_alphaThreshold |-> DefaultThreshold]

\* TransparentWindow::FreeBackBuffer: DeleteObject(m_dib) frees the bytes.
FreeBackBuffer(w, hp) ==
    [win  |-> [w EXCEPT !.m_pixels = 0, !.m_bufW = 0, !.m_bufH = 0],
     heap |-> IF w.m_pixels = 0 THEN hp
              ELSE [hp EXCEPT ![w.m_pixels] = [bytes |-> <<>>, freed |-> TRUE]]]

\* TransparentWindow::AllocateBackBuffer; created: whether GetDC,
\* CreateCompatibleDC and CreateDIBSection all succeed.
AllocateBackBuffer(w, hp, width, height, created) ==
    IF width <= 0 \/ height <= 0 \/ ~created THEN [ok |-> FALSE, win |-> w, heap |-> hp]
    ELSE [ok   |-> TRUE,
          win  |-> [w EXCEPT !.m_pixels = Len(hp) + 1, !.m_bufW = width, !.m_bufH = height],
          heap |-> Append(hp, [bytes |-> ZeroBytes(width * height * 4), freed |-> FALSE])]

\* TransparentWindow::GetAlphaAtClientPos: the bounds test, the byte offset
\* it reads, whether that read is of allocated memory, and the result.
GetAlphaAtClientPos_OutOfBounds(w, cx, cy) ==
    w.m_pixels = 0 \/ cx < 0 \/ cy < 0 \/ cx >= w.m_bufW \/ cy >= w.m_bufH

GetAlphaAtClientPos_Offset(w, cx, cy) == (cy * w.m_bufW + cx) * 4 + 3

GetAlphaAtClientPos_ReadDefined(w, hp, cx, cy) ==
    /\ w.m_pixels \in DOMAIN hp
    /\ ~hp[w.m_pixels].freed
    /\ GetAlphaAtClientPos_Offset(w, cx, cy) + 1 \in DOMAIN hp[w.m_pixels].bytes

GetAlphaAtClientPos(w, hp, cx, cy) ==
    IF GetAlphaAtClientPos_OutOfBounds(w, cx, cy) THEN 0
    ELSE hp[w.m_pixels].bytes[GetAlphaAtClientPos_Offset(w, cx, cy) + 1]

(***************************************************************************)
(* Inputs of the window operations                                         *)
(***************************************************************************)
WinWidths  == 0..MaxWinWidth
WinHeights == 0..MaxWinHeight

\* Thresholds passed in WindowConfig::alphaThreshold and SetAlphaHitThreshold.
ThresholdSamples == {0, DefaultThreshold}

\* Straight-alpha RGBA source pixels: alphas at, just above and away from the
\* thresholds, and both saturated alphas.
PixelSamples == << <<255, 0, 0, 5>>, <<0, 255, 0, 200>>, <<1, 17, 128, 10>>,
                   <<254, 128, 17, 11>>, <<9, 99, 199, 0>>, <<1, 2, 3, 255>> >>

Patterns == 0..((Len(PixelSamples) \div 2) - 1)

\* The renderer's frame number k of size w x h: pixel i is sample (i + 2k).
RECURSIVE FrameBytes(_, _, _)
FrameBytes(i, totalPixels, k) ==
    IF i >= totalPixels THEN <<>>
    ELSE PixelSamples[((i + 2 * k) % Len(PixelSamples)) + 1] \o FrameBytes(i + 1, totalPixels, k)

SourceFrame(w, h, k) == [w |-> w, h |-> h, bytes |-> FrameBytes(0, w * h, k)]

NoFrame == [w |-> 0, h |-> 0, bytes |-> <<>>]

\* The alpha byte of pixel (x, y) of a source frame.
SourceAlphaAt(f, x, y) == f.bytes[(y * f.w + x) * 4 + 4]

(***************************************************************************)
(* Threads.  The frame thread calls UpdateFrame and SetAlphaHitThreshold;  *)
(* the message thread owns the HWND: it runs Initialize and Shutdown (with *)
(* the frame loop stopped) and receives WM_NCHITTEST and alpha queries.    *)
(***************************************************************************)
IdleFrame == [pc |-> "idle", w |-> 0, h |-> 0, k |-> 0, threshold |-> 0]

IdleMsg == [pc |-> "idle", op |-> "none", x |-> 0, y |-> 0, alpha |-> 0,
            overlapped |-> FALSE, locked |-> TRUE, freed |-> FALSE, converting |-> FALSE]

NoObs == [done |-> FALSE, op |-> "none", x |-> 0, y |-> 0, alpha |-> 0,
          result |-> FALSE, overlapped |-> FALSE,
          bufferUnderMutex |-> TRUE, thresholdUnderMutex |-> TRUE,
          freed |-> FALSE, converting |-> FALSE]

FreeMutexes == [buffer |-> "none", click |-> "none"]

\* A step of the frame thread runs while a query of the message thread is
\* in flight.
Overlap(m) == IF m.pc = "idle" THEN m ELSE [m EXCEPT !.overlapped = TRUE]

\* What a read of undefined memory may return (one byte on each side of
\* every threshold).
UndefinedReads == {0, 255}

(***************************************************************************)
(* TransparentWindow::Initialize / Shutdown (message thread)               *)
(***************************************************************************)
WindowInitOutcomes == {"ok", "class", "hwnd", "buffer"}

WindowInitialize ==
    /\ frameT.pc = "idle" /\ msgT.pc = "idle"
    /\ \/ /\ win.m_initialized
          /\ UNCHANGED <<win, ct, heap, pushed>>
       \/ /\ ~win.m_initialized
          /\ Len(heap) < MaxBuffers
          /\ \E width \in WinWidths, height \in WinHeights,
                threshold \in ThresholdSamples, outcome \in WindowInitOutcomes :
               LET w1 == [win EXCEPT !.m_width = width, !.m_height = height,
                                     !.m_alphaThreshold = threshold]
                   a  == AllocateBackBuffer([w1 EXCEPT !.m_hwnd = TRUE], heap,
                                            width, height, outcome # "buffer")
               IN  /\ pushed' = NoFrame
                   /\ IF outcome = "class" THEN UNCHANGED <<win, ct, heap>>
                      ELSE IF outcome = "hwnd"
                      THEN win' = w1 /\ UNCHANGED <<ct, heap>>
                      ELSE IF ~a.ok
                      THEN win' = [a.win EXCEPT !.m_hwnd = FALSE] /\ UNCHANGED <<ct, heap>>
                      ELSE /\ win' = [a.win EXCEPT !.m_initialized = TRUE]
                           /\ heap' = a.heap
                           /\ ct' = CT_SetThreshold(ct, threshold)
    /\ obs' = NoObs
    /\ UNCHANGED <<mutex, frameT, msgT, conv, pipelineVars, fade, directVars>>

WindowShutdown ==
    /\ frameT.pc = "idle" /\ msgT.pc = "idle"
    /\ IF ~win.m_initialized THEN UNCHANGED <<win, heap, pushed>>
       ELSE \E f \in {FreeBackBuffer(win, heap)} :
            /\ win' = [f.win EXCEPT !.m_hwnd = FALSE, !.m_initialized = FALSE]
            /\ heap' = f.heap
            /\ pushed' = NoFrame
    /\ obs' = NoObs
    /\ UNCHANGED <<ct, mutex, frameT, msgT, conv, pipelineVars, fade, directVars>>

(***************************************************************************)
(* TransparentWindow::UpdateFrame (frame thread)                           *)
(***************************************************************************)
\* The early returns of UpdateFrame.
UpdateFrame_Rejects(rgbaPixels, w, h) ==
    ~win.m_initialized \/ ~win.m_hwnd \/ rgbaPixels = "null" \/ w <= 0 \/ h <= 0

\* The error an early return of UpdateFrame logs before it returns false.
UpdateFrame_Error(rgbaPixels, w, h) ==
    IF ~win.m_initialized \/ ~win.m_hwnd THEN "UpdateFrame called on uninitialized window"
    ELSE IF rgbaPixels = "null" THEN "UpdateFrame received null pixel pointer"
    ELSE "UpdateFrame received invalid dimensions"

\* The early returns, then the reallocation when the frame's size is not
\* the back buffer's.
UpdateFrame_Begin ==
    /\ frameT.pc = "idle"
    /\ msgT' = Overlap(msgT)
    /\ \/ /\ \E rgbaPixels \in {"null", "frame"}, w \in WinWidths, h \in WinHeights :
                /\ UpdateFrame_Rejects(rgbaPixels, w, h)
                /\ obs' = [NoObs EXCEPT !.op = UpdateFrame_Error(rgbaPixels, w, h)]
          /\ frameT' = IdleFrame
          /\ UNCHANGED <<win, heap, pushed>>
       \/ \E w \in WinWidths, h \in WinHeights :
          /\ ~UpdateFrame_Rejects("frame", w, h)
          /\ obs' = NoObs
          /\ pushed' = NoFrame
          /\ IF w # win.m_bufW \/ h # win.m_bufH
             THEN /\ Len(heap) < MaxBuffers
                  /\ \E f \in {FreeBackBuffer(win, heap)} :
                     \/ \E a \in {AllocateBackBuffer(f.win, f.heap, w, h, FALSE)} :
                          /\ heap' = a.heap
                          /\ win' = a.win
                          /\ frameT' = IdleFrame
                     \/ \E a \in {AllocateBackBuffer(f.win, f.heap, w, h, TRUE)} :
                          /\ heap' = a.heap
                          /\ win' = [a.win EXCEPT !.m_width = w, !.m_height = h]
                          /\ \E k \in Patterns :
                               frameT' = [IdleFrame EXCEPT !.pc = "uf_lock",
                                                           !.w = w, !.h = h, !.k = k]
             ELSE /\ \E k \in Patterns :
                       frameT' = [IdleFrame EXCEPT !.pc = "uf_lock",
                                                   !.w = w, !.h = h, !.k = k]
                  /\ UNCHANGED <<win, heap>>
    /\ UNCHANGED <<ct, mutex, conv, pipelineVars, fade, directVars>>

\* lock_guard(m_bufferMutex); ConvertRGBAToBGRAPremul starts writing m_pixels.
UpdateFrame_Lock ==
    /\ frameT.pc = "uf_lock"
    /\ mutex.buffer = "none"
    /\ mutex' = [mutex EXCEPT !.buffer = "frame"]
    /\ frameT' = [frameT EXCEPT !.pc = "uf_converting"]
    /\ msgT' = Overlap(msgT)
    /\ obs' = NoObs
    /\ UNCHANGED <<win, ct, heap, pushed, conv, pipelineVars, fade, directVars>>

\* The conversion loop completes and the lock_guard's scope ends.
UpdateFrame_Convert ==
    /\ frameT.pc = "uf_converting"
    /\ heap' = [heap EXCEPT ![win.m_pixels].bytes =
                   ConvertRGBAToBGRAPremul(SourceFrame(frameT.w, frameT.h, frameT.k).bytes,
                                           frameT.w, frameT.h)]
    /\ mutex' = [mutex EXCEPT !.buffer = "none"]
    /\ frameT' = [frameT EXCEPT !.pc = "uf_update"]
    /\ msgT' = Overlap(msgT)
    /\ obs' = NoObs
    /\ UNCHANGED <<win, ct, pushed, conv, pipelineVars, fade, directVars>>

\* m_clickThrough->UpdateBuffer: lock_guard(m_mutex).
UpdateFrame_UpdateBuffer_Lock ==
    /\ frameT.pc = "uf_update"
    /\ mutex.click = "none"
    /\ mutex' = [mutex EXCEPT !.click = "frame"]
    /\ frameT' = [frameT EXCEPT !.pc = "uf_updating"]
    /\ msgT' = Overlap(msgT)
    /\ obs' = NoObs
    /\ UNCHANGED <<win, ct, heap, pushed, conv, pipelineVars, fade, directVars>>

\* UpdateBuffer stores the reference and unlocks; ApplyLayeredUpdate; return true.
UpdateFrame_UpdateBuffer ==
    /\ frameT.pc = "uf_updating"
    /\ ct' = CT_UpdateBuffer(ct, win.m_pixels, win.m_bufW, win.m_bufH)
    /\ mutex' = [mutex EXCEPT !.click = "none"]
    /\ pushed' = SourceFrame(frameT.w, frameT.h, frameT.k)
    /\ frameT' = IdleFrame
    /\ msgT' = Overlap(msgT)
    /\ obs' = NoObs
    /\ UNCHANGED <<win, heap, conv, pipelineVars, fade, directVars>>

(***************************************************************************)
(* TransparentWindow::SetAlphaHitThreshold (frame thread)                  *)
(***************************************************************************)
\* m_alphaThreshold = threshold; ClickThrough::SetThreshold takes m_mutex.
SetAlphaHitThreshold_Lock ==
    /\ frameT.pc = "idle"
    /\ mutex.click = "none"
    /\ \E threshold \in ThresholdSamples :
        /\ win' = [win EXCEPT !.m_alphaThreshold = threshold]
        /\ frameT' = [IdleFrame EXCEPT !.pc = "st_locked", !.threshold = threshold]
    /\ mutex' = [mutex EXCEPT !.click = "frame"]
    /\ msgT' = Overlap(msgT)
    /\ obs' = NoObs
    /\ UNCHANGED <<ct, heap, pushed, conv, pipelineVars, fade, directVars>>

\* SetThreshold writes m_threshold and unlocks.
SetAlphaHitThreshold_Write ==
    /\ frameT.pc = "st_locked"
    /\ ct' = CT_SetThreshold(ct, frameT.threshold)
    /\ mutex' = [mutex EXCEPT !.click = "none"]
    /\ frameT' = IdleFrame
    /\ msgT' = Overlap(msgT)
    /\ obs' = NoObs
    /\ UNCHANGED <<win, heap, pushed, conv, pipelineVars, fade, directVars>>

(***************************************************************************)
(* WM_NCHITTEST -> ClickThrough::IsTransparentAt (message thread)          *)
(***************************************************************************)
QueryXs == (-1)..MaxWinWidth
QueryYs == 0..MaxWinHeight

\* InstanceWndProc calls IsTransparentAt, which calls GetAlphaAt:
\* lock_guard(m_mutex).
HitTest_Lock ==
    /\ msgT.pc = "idle"
    /\ win.m_hwnd
    /\ mutex.click = "none"
    /\ \E x \in QueryXs, y \in QueryYs :
          msgT' = [IdleMsg EXCEPT !.pc = "q_locked", !.op = "IsTransparentAt",
                                  !.x = x, !.y = y, !.overlapped = (frameT.pc # "idle")]
    /\ mutex' = [mutex EXCEPT !.click = "msg"]
    /\ obs' = NoObs
    /\ UNCHANGED <<win, ct, heap, frameT, pushed, conv, pipelineVars, fade, directVars>>

\* The bytes a read of the alpha at (x, y) can return: the stored byte; any
\* byte when the buffer has been freed; the old or the new byte when the
\* frame thread is converting into the same buffer.
AlphaReads(x, y) ==
    IF CT_OutOfBounds(ct, x, y) THEN {0}
    ELSE IF ~CT_ReadDefined(ct, heap, x, y) THEN UndefinedReads
    ELSE IF frameT.pc = "uf_converting" /\ win.m_pixels = ct.m_buffer
         THEN {CT_GetAlphaAt(ct, heap, x, y),
               ConvertRGBAToBGRAPremul(SourceFrame(frameT.w, frameT.h, frameT.k).bytes,
                                       frameT.w, frameT.h)[CT_ByteOffset(ct, x, y) + 1]}
    ELSE {CT_GetAlphaAt(ct, heap, x, y)}

\* GetAlphaAt's body and return (the lock_guard's scope ends).
HitTest_GetAlphaAt ==
    /\ msgT.pc = "q_locked"
    /\ \E alpha \in AlphaReads(msgT.x, msgT.y) :
          msgT' = [msgT EXCEPT
                     !.pc = "q_compare", !.alpha = alpha,
                     !.locked = (mutex.click = "msg"),
                     !.freed = ~CT_OutOfBounds(ct, msgT.x, msgT.y)
                               /\ ~CT_ReadDefined(ct, heap, msgT.x, msgT.y),
                     !.converting = /\ ~CT_OutOfBounds(ct, msgT.x, msgT.y)
                                    /\ frameT.pc = "uf_converting"
                                    /\ win.m_pixels = ct.m_buffer]
    /\ mutex' = [mutex EXCEPT !.click = "none"]
    /\ UNCHANGED <<win, ct, heap, frameT, obs, pushed, conv, pipelineVars, fade, directVars>>

\* The thresholds a read of m_threshold can return: the stored one, or the
\* one SetThreshold is writing.
ThresholdReads ==
    IF frameT.pc = "st_locked" THEN {ct.m_threshold, frameT.threshold}
    ELSE {ct.m_threshold}

\* IsTransparentAt compares the alpha with m_threshold and returns; the
\* window procedure answers HTTRANSPARENT (result TRUE) or HTCLIENT.
HitTest_Compare ==
    /\ msgT.pc = "q_compare"
    /\ \E threshold \in ThresholdReads :
          obs' = [done |-> TRUE, op |-> msgT.op, x |-> msgT.x, y |-> msgT.y,
                  alpha |-> msgT.alpha, result |-> CT_Compare(msgT.alpha, threshold),
                  overlapped |-> msgT.overlapped,
                  bufferUnderMutex |-> msgT.locked,
                  thresholdUnderMutex |-> (mutex.click = "msg"),
                  freed |-> msgT.freed, converting |-> msgT.converting]
    /\ msgT' = IdleMsg
    /\ UNCHANGED <<win, ct, heap, mutex, frameT, pushed, conv, pipelineVars, fade, directVars>>

(***************************************************************************)
(* One pixel through ConvertRGBAToBGRAPremul and the ClickThrough queries  *)
(***************************************************************************)
NoConv == [step |-> "none", src |-> <<0, 0, 0, 0>>, threshold |-> DefaultThreshold,
           out |-> <<>>, alpha |-> 0, transparent |-> FALSE, opaque |-> FALSE]

\* A source pixel with red channel c and alpha a, to be tested against threshold t.
PixelInput(c, a, t) ==
    [NoConv EXCEPT !.step = "new", !.src = <<c, 17, 128, a>>, !.threshold = t]

ConvertOnePixel ==
    /\ conv.step = "new"
    /\ conv' = [conv EXCEPT !.step = "converted",
                            !.out = ConvertRGBAToBGRAPremul(conv.src, 1, 1)]
    /\ UNCHANGED <<pipelineVars, fade, windowVars, directVars>>

\* SetThreshold, UpdateBuffer on the converted 1 x 1 buffer, then the three
\* queries at (0, 0).
QueryOnePixel ==
    /\ conv.step = "converted"
    /\ LET hp == << [bytes |-> conv.out, freed |-> FALSE] >>
           c  == CT_UpdateBuffer(CT_SetThreshold(NewClickThrough, conv.threshold), 1, 1, 1)
       IN  conv' = [conv EXCEPT !.step = "queried",
                                !.alpha = CT_GetAlphaAt(c, hp, 0, 0),
                                !.transparent = CT_IsTransparentAt(c, hp, 0, 0),
                                !.opaque = CT_IsOpaqueAt(c, hp, 0, 0)]
    /\ UNCHANGED <<pipelineVars, fade, windowVars, directVars>>

(***************************************************************************)
(* OpacityController.  Opacities are floats; the model keeps them in units *)
(* of 2^-24, the spacing of the floats of [0.5, 1], and rounds every sum   *)
(* to that grid as float addition does (below 0.5 the floats are finer     *)
(* than the grid).  Times are whole milliseconds.  The quotient            *)
(* m_fadeSpeed = diff / durationSeconds and the product                    *)
(* m_fadeSpeed * deltaSeconds are kept exact: their rounding is relative   *)
(* to their own magnitude, at most a half-unit of the last place.          *)
(***************************************************************************)
\* 1.0f in units of 2^-24.
FloatUlpsPerUnit == 16777216

\* The largest |diff|, in units of 2^-24, with std::fabs(diff) < 0.001f.
FadeEpsilon == 16777

\* m_fadeSpeed: diff / durationSeconds as the pair it is computed from.
FadeSpeed(diff, duration) == [diff |-> diff, duration |-> duration]

NoFadeSpeed == FadeSpeed(0, 1)

\* Members as the constructor leaves them; then the position of the thread
\* inside Update (pc, completeCb) and what the calls so far did: tick turns
\* at every Update call, fired counts the callback's invocations since the
\* last FadeTo that started a fade, completed tells that this fade reached
\* its target and hadCallback whether a callback was installed then,
\* reentry is the call the last callback made on the controller, deadlock
\* that a call tried to lock m_mutex while its own thread held it, restarts
\* counts the FadeTo calls that redirected the fade in progress.
NewOpacityController ==
    [m_currentOpacity |-> FloatUlpsPerUnit, m_targetOpacity |-> FloatUlpsPerUnit,
     m_fadeSpeed |-> NoFadeSpeed, m_fading |-> FALSE,
     m_fadeCompleteCallback |-> FALSE, m_mutex |-> "none",
     pc |-> "idle", completeCb |-> FALSE,
     tick |-> FALSE, fired |-> 0, completed |-> FALSE, hadCallback |-> FALSE,
     reentry |-> "", deadlock |-> FALSE, restarts |-> 0]

\* OpacityController::Clamp01
OpacityController_Clamp01(v) == IF v < 0 THEN 0 ELSE IF v > FloatUlpsPerUnit THEN FloatUlpsPerUnit ELSE v

\* n / d rounded to the nearest integer, halves to the even one (the IEEE
\* default rounding), for d > 0.
RoundHalfEven(n, d) ==
    LET q == n \div d
        r == n % d
    IN  IF 2 * r < d THEN q
        ELSE IF 2 * r > d THEN q + 1
        ELSE IF q % 2 = 0 THEN q ELSE q + 1

\* m_currentOpacity += m_fadeSpeed * deltaSeconds, in float.
FloatAddScaled(cur, speed, delta) ==
    cur + RoundHalfEven(speed.diff * delta, speed.duration)

\* OpacityController::SetOpacity, under m_mutex.
OpacityController_SetOpacity(f, value) ==
    [f EXCEPT !.m_currentOpacity = OpacityController_Clamp01(value), !.m_targetOpacity = OpacityController_Clamp01(value),
              !.m_fadeSpeed = NoFadeSpeed, !.m_fading = FALSE]

\* OpacityController::FadeTo, under m_mutex.
OpacityController_FadeTo(f, target, durationSeconds) ==
    LET clampedTarget == OpacityController_Clamp01(target)
        diff == clampedTarget - f.m_currentOpacity
        instant == [f EXCEPT !.m_currentOpacity = clampedTarget,
                             !.m_targetOpacity = clampedTarget,
                             !.m_fadeSpeed = NoFadeSpeed, !.m_fading = FALSE]
    IN  IF durationSeconds <= 0 THEN instant
        ELSE IF diff <= FadeEpsilon /\ -diff <= FadeEpsilon THEN instant
        ELSE [f EXCEPT !.m_targetOpacity = clampedTarget,
                       !.m_fadeSpeed = FadeSpeed(diff, durationSeconds),
                       !.m_fading = TRUE,
                       !.fired = 0, !.completed = FALSE, !.hadCallback = FALSE]

\* The state of m_mutex when Update invokes the callback, had the callback
\* been invoked inside the lock_guard's scope.
Update_MutexAtCallback_Held == "update"

\* The state of m_mutex when Update invokes the callback: the lock_guard's
\* scope has ended.
Update_MutexAtCallback == "none"

\* The scope of Update that holds m_mutex: the early returns, the step, the
\* arrival test, the clamp, and the copy of the callback.
OpacityController_UpdateLocked(f, deltaSeconds) ==
    IF ~f.m_fading \/ deltaSeconds <= 0 THEN [f EXCEPT !.completeCb = FALSE]
    ELSE LET stepped == FloatAddScaled(f.m_currentOpacity, f.m_fadeSpeed, deltaSeconds)
             reached == IF f.m_fadeSpeed.diff > 0 THEN stepped >= f.m_targetOpacity
                        ELSE stepped <= f.m_targetOpacity
             cur     == OpacityController_Clamp01(IF reached THEN f.m_targetOpacity ELSE stepped)
         IN  IF reached
             THEN [f EXCEPT !.m_currentOpacity = cur, !.m_fading = FALSE,
                            !.m_fadeSpeed = NoFadeSpeed,
                            !.completeCb = f.m_fadeCompleteCallback,
                            !.completed = TRUE,
                            !.hadCallback = f.m_fadeCompleteCallback]
             ELSE [f EXCEPT !.m_currentOpacity = cur, !.completeCb = FALSE]

\* A call the callback makes on the controller that invoked it: each locks
\* m_mutex first.
CallbackCalls == {"none", "FadeTo", "SetOpacity", "IsFading"}

OpacityValues == {-FloatUlpsPerUnit, 0, FloatUlpsPerUnit \div 2,
                  FloatUlpsPerUnit - FadeEpsilon, FloatUlpsPerUnit,
                  2 * FloatUlpsPerUnit}

\* Durations in milliseconds: none, two and three frames, a week and more.
FadeDurations == {0, 32, 48, 640000000}

\* The durations FadeTo is called with when the current opacity is cur: the
\* fades of a week start from 0.5 or above, where the floats are the grid
\* (from below 0.5 a float sum keeps more digits than the grid does).
FadeDurationsFrom(cur) ==
    IF 2 * cur >= FloatUlpsPerUnit THEN FadeDurations
    ELSE {d \in FadeDurations : d < 1000}

\* Frame times in milliseconds.
FrameDeltas == {0, 16}

Opacity_SetOpacity ==
    /\ fade.pc = "idle"
    /\ \E value \in OpacityValues : fade' = OpacityController_SetOpacity(fade, value)
    /\ UNCHANGED <<pipelineVars, windowVars, conv, directVars>>

\* The number of FadeTo calls that may redirect one fade in progress.
MaxRestarts == 1

Opacity_FadeTo ==
    /\ fade.pc = "idle"
    /\ fade.m_fading => fade.restarts < MaxRestarts
    /\ \E target \in OpacityValues,
                    durationSeconds \in FadeDurationsFrom(fade.m_currentOpacity) :
         \E f \in {OpacityController_FadeTo(fade, target, durationSeconds)} :
           fade' = [f EXCEPT !.restarts = IF fade.m_fading /\ f.m_fading
                                          THEN fade.restarts + 1 ELSE 0]
    /\ UNCHANGED <<pipelineVars, windowVars, conv, directVars>>

\* OpacityController::SetFadeCompleteCallback
Opacity_SetFadeCompleteCallback ==
    /\ fade.pc = "idle"
    /\ \E cb \in BOOLEAN : fade' = [fade EXCEPT !.m_fadeCompleteCallback = cb]
    /\ UNCHANGED <<pipelineVars, windowVars, conv, directVars>>

\* Update up to the end of the locked scope.
Opacity_UpdateWith(deltaSeconds) ==
    /\ fade.pc = "idle"
    /\ \E u \in {OpacityController_UpdateLocked(fade, deltaSeconds)} :
           fade' = [u EXCEPT !.tick = ~fade.tick,
                             !.m_mutex = IF u.completeCb THEN Update_MutexAtCallback
                                         ELSE "none",
                             !.pc = IF u.completeCb THEN "callback" ELSE "idle",
                             !.reentry = ""]
    /\ UNCHANGED <<pipelineVars, windowVars, conv, directVars>>

Opacity_Update == \E deltaSeconds \in FrameDeltas : Opacity_UpdateWith(deltaSeconds)

\* Update called with a positive frame time.
Opacity_UpdateAdvancing ==
    \E deltaSeconds \in {d \in FrameDeltas : d > 0} : Opacity_UpdateWith(deltaSeconds)

\* if (completeCb) completeCb(m_currentOpacity): the callback runs on the
\* caller's thread and may call the controller; Update returns after it.
Opacity_Callback ==
    /\ fade.pc = "callback"
    /\ \E call \in CallbackCalls :
        \E f \in {[fade EXCEPT !.fired = fade.fired + 1, !.reentry = call,
                               !.completeCb = FALSE]} :
          IF call # "none" /\ fade.m_mutex # "none"
          THEN fade' = [f EXCEPT !.deadlock = TRUE, !.pc = "blocked"]
          ELSE \E g \in {[f EXCEPT !.pc = "idle", !.m_mutex = "none"]} :
               \/ /\ call \in {"none", "IsFading"}
                  /\ fade' = g
               \/ /\ call = "SetOpacity"
                  /\ \E value \in OpacityValues :
                         fade' = OpacityController_SetOpacity(g, value)
               \/ /\ call = "FadeTo"
                  /\ \E target \in OpacityValues,
                    durationSeconds \in FadeDurationsFrom(fade.m_currentOpacity) :
                         fade' = OpacityController_FadeTo(g, target, durationSeconds)
    /\ UNCHANGED <<pipelineVars, windowVars, conv, directVars>>

(***************************************************************************)
(* RenderPipeline::GetDriver: the caller issues calls on the pipeline's    *)
(* driver between BeginFrame and EndFrame; here it destroys the target.    *)
(***************************************************************************)
GetDriver_DestroyTarget ==
    /\ m_initialized /\ m_driver # NoDriver
    /\ m_driver' = Drv_DestroyTarget(m_driver)
    /\ ret' = Ret("GetDriver.DestroyTarget", TRUE)
    /\ calls' = <<Call("DestroyTarget", m_driver, TRUE, FALSE)>>
    /\ lastSel' = NoSel
    /\ forcedEnd' = FALSE
    /\ UNCHANGED <<m_surface, m_initialized, m_frameActive, m_lastStats, m_config,
                   scripted, initFailure, openBegins, lastFrameCall>>
    /\ UNCHANGED <<windowVars, fade, conv, directVars>>

(***************************************************************************)
(* A driver and a GPUSurface used directly, in any order of calls: what a  *)
(* caller holding an IGraphicsDriver* (RenderPipeline::GetDriver) or a     *)
(* GPUSurface of its own can do.                                           *)
(***************************************************************************)
DirectAPIs == {"DX11", "OpenGL"}

\* A direct call: operation, result, arguments, the driver calls made,
\* whether the call before it was the same operation, and whether the call
\* before it was a CreateTarget that succeeded.
DRet(op, ok, args, log) ==
    [op |-> op, ok |-> ok, args |-> args, log |-> log, again |-> (dret.op = op),
     created |-> (dret.op = "CreateTarget" /\ dret.ok)]

NoDirectCall == [op |-> "construct", ok |-> TRUE, args |-> <<>>, log |-> <<>>,
                 again |-> FALSE, created |-> FALSE]

\* The failures the system can produce for the driver at hand.
DirectInitOutcomes == IF drv.api = "DX11" THEN DX11InitOutcomes ELSE {"ok"}

DirectTargetOutcomes == IF drv.api = "DX11" THEN TargetOutcomes ELSE {"ok"}

DirectDepths == IF drv.api = "DX11" THEN BOOLEAN ELSE {TRUE}

DirectMapOutcomes == IF drv.api = "DX11" THEN BOOLEAN ELSE {TRUE}

Driver_Initialize ==
    \E outcome \in DirectInitOutcomes :
      \E r \in {Drv_Initialize(drv, outcome)} :
        /\ drv' = r.d
        /\ dret' = DRet("Initialize", r.ok, <<>>, <<>>)
        /\ UNCHANGED <<surf, out, pipelineVars, fade, windowVars, conv>>

Driver_Shutdown ==
    /\ drv' = Drv_Shutdown(drv)
    /\ dret' = DRet("Shutdown", TRUE, <<>>, <<>>)
    /\ UNCHANGED <<surf, out, pipelineVars, fade, windowVars, conv>>

Driver_CreateTarget ==
    \E w \in Widths, h \in Heights, depth \in DirectDepths, outcome \in DirectTargetOutcomes :
      \E r \in {Drv_CreateTarget(drv, Desc(w, h, depth), outcome)} :
        /\ drv' = r.d
        /\ dret' = DRet("CreateTarget", r.ok, <<w, h>>, <<>>)
        /\ UNCHANGED <<surf, out, pipelineVars, fade, windowVars, conv>>

\* CreateTarget with a descriptor of any colour format and sample count.
SampleCounts == {1, 4, 8}

Driver_CreateTarget_Desc ==
    \E w \in Widths, h \in Heights, format \in ColorFormats, depth \in DirectDepths,
       samples \in SampleCounts, outcome \in DirectTargetOutcomes :
      \E r \in {Drv_CreateTarget(drv, TargetDesc(w, h, format, depth, samples), outcome)} :
        /\ drv' = r.d
        /\ dret' = DRet("CreateTarget", r.ok, <<w, h, format, depth, samples>>, <<>>)
        /\ UNCHANGED <<surf, out, pipelineVars, fade, windowVars, conv>>

Driver_ResizeTarget ==
    \E w \in Widths, h \in Heights, outcome \in DirectTargetOutcomes :
      \E r \in {Drv_ResizeTarget(drv, w, h, outcome)} :
        /\ drv' = r.d
        /\ dret' = DRet("ResizeTarget", r.ok, <<>>, <<>>)
        /\ UNCHANGED <<surf, out, pipelineVars, fade, windowVars, conv>>

Driver_DestroyTarget ==
    /\ drv' = Drv_DestroyTarget(drv)
    /\ dret' = DRet("DestroyTarget", TRUE, <<>>, <<>>)
    /\ UNCHANGED <<surf, out, pipelineVars, fade, windowVars, conv>>

Driver_BeginFrame ==
    \E r \in {Drv_BeginFrame(drv)} :
        /\ drv' = r.d
        /\ dret' = DRet("BeginFrame", r.ok, <<>>, <<>>)
        /\ UNCHANGED <<surf, out, pipelineVars, fade, windowVars, conv>>

Driver_EndFrame ==
    /\ drv.frameCounter < MaxFrames
    /\ \E r \in {Drv_EndFrame(drv)} :
        /\ drv' = r.d
        /\ dret' = DRet("EndFrame", r.ok, <<>>, <<>>)
        /\ UNCHANGED <<surf, out, pipelineVars, fade, windowVars, conv>>

\* The PixelReadback the caller passes: empty, of one pixel, and of the
\* largest size a target can have.
OutputSamples == {EmptyReadback, Allocate(EmptyReadback, 1, 1),
                  Allocate(EmptyReadback, MaxWidth, MaxHeight)}

Driver_ReadbackPixels ==
    \E output \in OutputSamples, mapOk \in DirectMapOutcomes :
      \E r \in {Drv_ReadbackPixels(drv, output, mapOk)} :
        /\ out' = r.out
        /\ dret' = DRet("ReadbackPixels", r.ok, <<output.width, output.height>>, <<>>)
        /\ UNCHANGED <<drv, surf, pipelineVars, fade, windowVars, conv>>

\* GPUSurface::Create(driver, desc) with driver null or &drv.
Surface_Create ==
    \E driver \in {"null", "drv"}, w \in Widths, h \in Heights,
       outcome \in DirectTargetOutcomes :
      \E r \in {GPUSurface_Create(surf, IF driver = "null" THEN NoDriver ELSE drv,
                                  Desc(w, h, TRUE), outcome)} :
        /\ surf' = r.s
        /\ drv' = IF driver = "null" THEN drv ELSE r.d
        /\ dret' = DRet("Surface.Create", r.ok, <<driver, w, h>>, r.log)
        /\ UNCHANGED <<out, pipelineVars, fade, windowVars, conv>>

Surface_Resize ==
    \E w \in Widths, h \in Heights, outcome \in DirectTargetOutcomes :
      \E r \in {GPUSurface_Resize(surf, drv, w, h, outcome)} :
        /\ surf' = r.s
        /\ drv' = r.d
        /\ dret' = DRet("Surface.Resize", r.ok, <<w, h>>, r.log)
        /\ UNCHANGED <<out, pipelineVars, fade, windowVars, conv>>

Surface_Destroy ==
    \E x \in {GPUSurface_Destroy(surf, drv)} :
        /\ surf' = x.s
        /\ drv' = x.d
        /\ dret' = DRet("Surface.Destroy", TRUE, <<>>, x.log)
        /\ UNCHANGED <<out, pipelineVars, fade, windowVars, conv>>

Surface_ReadPixels ==
    \E mapOk \in DirectMapOutcomes :
      \E r \in {GPUSurface_ReadPixels(surf, drv, mapOk)} :
        /\ surf' = r.s
        /\ dret' = DRet("Surface.ReadPixels", r.ok, <<>>, r.log)
        /\ UNCHANGED <<drv, out, pipelineVars, fade, windowVars, conv>>

(***************************************************************************)
(* Specifications                                                          *)
(***************************************************************************)
\* The state after RenderPipeline's constructor.
Constructed ==
    /\ m_driver = NoDriver
    /\ m_surface = NewSurface
    /\ m_initialized = FALSE
    /\ m_frameActive = FALSE
    /\ m_lastStats = 0
    /\ m_config = DefaultConfig
    /\ ret = Ret("construct", TRUE)
    /\ calls = <<>>
    /\ lastSel = NoSel
    /\ initFailure = "none"
    /\ openBegins = 0
    /\ lastFrameCall = "none"
    /\ forcedEnd = FALSE

\* The state after TransparentWindow's and OpacityController's constructors.
WindowConstructed ==
    /\ win = NewWindow
    /\ ct = NewClickThrough
    /\ heap = <<>>
    /\ mutex = FreeMutexes
    /\ frameT = IdleFrame
    /\ msgT = IdleMsg
    /\ obs = NoObs
    /\ pushed = NoFrame
    /\ fade = NewOpacityController

\* No driver or surface has been built for direct use.
NoDirectUse ==
    /\ drv = NoDriver
    /\ surf = NewSurface
    /\ out = EmptyReadback
    /\ dret = NoDirectCall

\* The program: the registry's factories build DX11Driver and OpenGLDriver.
Init ==
    /\ Constructed /\ scripted = FALSE /\ WindowConstructed /\ conv = NoConv
    /\ NoDirectUse

\* The pipeline over a registry whose factories build instrumented doubles.
InitScripted ==
    /\ Constructed /\ scripted = TRUE /\ WindowConstructed /\ conv = NoConv
    /\ NoDirectUse

\* A freshly constructed driver of either backend and a fresh GPUSurface.
InitDirect ==
    /\ Constructed /\ scripted = FALSE /\ WindowConstructed /\ conv = NoConv
    /\ \E api \in DirectAPIs : drv = NewDriver(api, 1)
    /\ surf = NewSurface
    /\ out = EmptyReadback
    /\ dret = NoDirectCall

\* Every (channel, alpha) pair, and every (alpha, threshold) pair.
InitPixel ==
    /\ Constructed /\ scripted = FALSE /\ WindowConstructed /\ NoDirectUse
    /\ \/ \E c \in Byte, a \in Byte : conv = PixelInput(c, a, DefaultThreshold)
       \/ \E a \in Byte, t \in Byte : conv = PixelInput(254, a, t)

Next ==
    \/ Initialize
    \/ Shutdown
    \/ BeginFrame
    \/ EndFrame
    \/ ReadbackFrame
    \/ Resize

Spec == Init /\ [][Next]_vars

\* The pipeline and a caller that also uses the driver GetDriver() returns.
NextPipelineDriver ==
    \/ Next
    \/ GetDriver_DestroyTarget

SpecPipelineDriver == Init /\ [][NextPipelineDriver]_vars

SpecScripted == InitScripted /\ [][Next]_vars

\* The window, its frame thread and its message thread.
NextWindow ==
    \/ WindowInitialize
    \/ WindowShutdown
    \/ UpdateFrame_Begin
    \/ UpdateFrame_Lock
    \/ UpdateFrame_Convert
    \/ UpdateFrame_UpdateBuffer_Lock
    \/ UpdateFrame_UpdateBuffer
    \/ SetAlphaHitThreshold_Lock
    \/ SetAlphaHitThreshold_Write
    \/ HitTest_Lock
    \/ HitTest_GetAlphaAt
    \/ HitTest_Compare

SpecWindow == Init /\ [][NextWindow]_vars

\* The renderer as its callers use it: through the pipeline, or through a
\* driver of their own.
InitRenderer == Init \/ InitDirect

\* Direct calls on a driver.
NextDriver ==
    \/ Driver_Initialize
    \/ Driver_Shutdown
    \/ Driver_CreateTarget
    \/ Driver_ResizeTarget
    \/ Driver_DestroyTarget
    \/ Driver_BeginFrame
    \/ Driver_EndFrame
    \/ Driver_ReadbackPixels

SpecDriver == InitDirect /\ [][NextDriver]_vars

NextRenderer ==
    \/ drv = NoDriver /\ Next
    \/ drv # NoDriver /\ NextDriver

SpecRenderer == InitRenderer /\ [][NextRenderer]_vars

\* Direct calls on a GPUSurface, over a driver that is initialized and shut
\* down by its owner.
NextSurface ==
    \/ Driver_Initialize
    \/ Driver_Shutdown
    \/ Surface_Create
    \/ Surface_Resize
    \/ Surface_Destroy
    \/ Surface_ReadPixels

SpecSurface == InitDirect /\ [][NextSurface]_vars

\* A driver's render target: created with any descriptor, resized, destroyed.
NextTarget ==
    \/ Driver_Initialize
    \/ Driver_CreateTarget_Desc
    \/ Driver_ResizeTarget
    \/ Driver_DestroyTarget

SpecTarget == InitDirect /\ [][NextTarget]_vars

\* A GPUSurface driven by Create, Resize and ReadPixels only, on a driver
\* that is initialized once.
NextSurfaceCalls ==
    \/ Driver_Initialize
    \/ Surface_Create
    \/ Surface_Resize
    \/ Surface_ReadPixels

SpecSurfaceCalls == InitDirect /\ [][NextSurfaceCalls]_vars

\* A GPUSurface on a driver, or a TransparentWindow, each used on its own.
NextComponents ==
    \/ drv = NoDriver /\ NextWindow
    \/ drv # NoDriver /\ NextSurface

SpecComponents == InitRenderer /\ [][NextComponents]_vars

\* The pixel conversion followed by the hit-test queries.
NextPixel == ConvertOnePixel \/ QueryOnePixel

SpecPixel == InitPixel /\ [][NextPixel]_vars

\* An OpacityController and its callback, called from one thread.
NextFade ==
    \/ Opacity_SetOpacity
    \/ Opacity_FadeTo
    \/ Opacity_SetFadeCompleteCallback
    \/ Opacity_Update
    \/ Opacity_Callback

SpecFade == Init /\ [][NextFade]_vars

\* The frame loop: a fade is left to run (FadeTo and SetOpacity are called
\* only while none is in progress), Update is called with a positive frame
\* time again and again, and a callback Update invokes returns.
NextFadeLoop ==
    \/ ~fade.m_fading /\ Opacity_SetOpacity
    \/ ~fade.m_fading /\ Opacity_FadeTo
    \/ Opacity_SetFadeCompleteCallback
    \/ Opacity_Update
    \/ Opacity_Callback

SpecFadeLoop ==
    /\ Init
    /\ [][NextFadeLoop]_vars
    /\ WF_vars(Opacity_UpdateAdvancing)
    /\ WF_vars(Opacity_Callback)


(***************************************************************************)
(* Properties                                                              *)
(***************************************************************************)

\* C1: the driver SelectAndInitDriver selects is, for every script of
\* IsSupported / Initialize results of the registered backends, the one the
\* contract names: the preferred entry when it is registered, supported and
\* initializes, otherwise the first usable entry in ascending priority order
\* among the others; and it is the pipeline's active driver when Initialize
\* succeeds.
C1_SelectionDeterministic ==
    lastSel.ran =>
        /\ lastSel.api = lastSel.expected
        /\ ret.ok => (m_driver.api = lastSel.expected /\ m_driver.initialized)

C1_Witness ==
    /\ lastSel.ran /\ ret.ok
    /\ lastSel.pref = "DX11" /\ lastSel.api = "OpenGL"

\* C2: a BeginFrame on a pipeline that is not initialized or is mid-frame
\* returns failure, makes no driver call and leaves the frame-active flag as
\* it was; hence at most one BeginFrame succeeds between two EndFrame /
\* Shutdown calls.
C2_BeginFrameNotNested ==
    [][ /\ (ret'.op = "BeginFrame" /\ (~m_initialized \/ m_frameActive)) =>
               (~ret'.ok /\ calls' = <<>> /\ m_frameActive' = m_frameActive)
        /\ openBegins' <= 1 ]_vars

C2_Witness ==
    ret.op = "BeginFrame" /\ ~ret.ok /\ m_frameActive /\ openBegins = 1

\* C3: an EndFrame with no successful BeginFrame since Initialize or since
\* the last EndFrame returns failure, does not call the driver and leaves
\* the frame number of GetFrameStats as it was.
C3_EndFrameWithoutBegin ==
    [][ (ret'.op = "EndFrame" /\ openBegins = 0) =>
            (~ret'.ok /\ calls' = <<>> /\ m_lastStats' = m_lastStats) ]_vars

C3_Witness ==
    ret.op = "EndFrame" /\ ~ret.ok /\ calls = <<>> /\ m_initialized /\ m_lastStats = 1

\* C4: a ReadbackFrame between a successful BeginFrame and its EndFrame
\* returns failure, performs no driver readback and leaves the frame active
\* and the readback buffer untouched.
C4_ReadbackMidFrame ==
    [][ (ret'.op = "ReadbackFrame" /\ openBegins >= 1) =>
            (~ret'.ok /\ calls' = <<>> /\ m_frameActive' /\ m_surface' = m_surface) ]_vars

C4_Witness ==
    ret.op = "ReadbackFrame" /\ ~ret.ok /\ m_frameActive /\ lastFrameCall = "BeginFrame"

\* C5 as stated: a ReadbackFrame that returns a pixel surface is preceded by
\* an EndFrame call with no BeginFrame call after it.
C5_ReadbackOnlyAfterEndFrame ==
    (ret.op = "ReadbackFrame" /\ ret.ok) => lastFrameCall = "EndFrame"

\* C5 (amended): a ReadbackFrame returns a pixel surface only on an
\* initialized pipeline with no frame active, i.e. every successful
\* BeginFrame before it was followed by an EndFrame or Shutdown call.
C5_ReadbackOnlyOutsideFrame ==
    (ret.op = "ReadbackFrame" /\ ret.ok) =>
        (m_initialized /\ ~m_frameActive /\ openBegins = 0)

C5_Witness ==
    /\ ret.op = "ReadbackFrame" /\ ret.ok
    /\ lastFrameCall = "EndFrame" /\ m_lastStats >= 1

\* C6: with the fallback's API preferred, the fallback is the first entry
\* tried, and the hardware entry is instantiated, probed or initialized only
\* after the fallback's IsSupported or Initialize returned false.
C6_PreferredFallbackFirst ==
    (lastSel.ran /\ lastSel.pref = "OpenGL") =>
        /\ calls # <<>>
        /\ calls[1].op = "factory" /\ calls[1].api = "OpenGL"
        /\ \A i \in DOMAIN calls :
              (calls[i].api = "DX11"
                  /\ calls[i].op \in {"factory", "IsSupported", "Initialize"}) =>
              \E j \in 1..(i - 1) :
                  /\ calls[j].api = "OpenGL"
                  /\ calls[j].op \in {"IsSupported", "Initialize"}
                  /\ ~calls[j].res

C6_Witness ==
    /\ lastSel.ran /\ lastSel.pref = "OpenGL" /\ lastSel.api = "DX11"
    /\ \E i \in DOMAIN calls :
          calls[i].api = "OpenGL" /\ calls[i].op = "Initialize" /\ ~calls[i].res

\* C7: one Initialize instantiates every registry entry at most once, and
\* calls IsSupported and Initialize at most once on each instance.
C7_EachEntryTriedOnce ==
    lastSel.ran =>
        /\ \A a \in RegisteredAPIs :
              Cardinality({i \in DOMAIN calls :
                              calls[i].op = "factory" /\ calls[i].api = a}) <= 1
        /\ \A i, j \in DOMAIN calls :
              (/\ calls[i].op \in {"factory", "IsSupported", "Initialize"}
               /\ calls[j].op = calls[i].op
               /\ calls[j].inst = calls[i].inst) => i = j

C7_Witness ==
    /\ lastSel.ran /\ lastSel.pref = "DX11" /\ lastSel.api = "OpenGL"
    /\ \E i \in DOMAIN calls :
          calls[i].api = "DX11" /\ calls[i].op = "Initialize" /\ ~calls[i].res

\* C8: during selection Initialize is called on an instance only after
\* IsSupported returned true on that instance, an instance that reported
\* unsupported is never initialized, and IsSupported leaves the instance's
\* state as it was.
C8_ProbeBeforeInit ==
    lastSel.ran =>
        /\ \A i \in DOMAIN calls :
              calls[i].op = "Initialize" =>
              \E j \in 1..(i - 1) :
                  /\ calls[j].op = "IsSupported"
                  /\ calls[j].inst = calls[i].inst
                  /\ calls[j].res
        /\ \A j \in DOMAIN calls :
              calls[j].op = "IsSupported" =>
              /\ calls[j].same
              /\ ~calls[j].res =>
                    ~\E i \in DOMAIN calls :
                        calls[i].op = "Initialize" /\ calls[i].inst = calls[j].inst

C8_Witness ==
    /\ lastSel.ran /\ lastSel.api = "OpenGL"
    /\ \E j \in DOMAIN calls :
          calls[j].op = "IsSupported" /\ calls[j].api = "DX11" /\ ~calls[j].res

\* C9: when no registry entry is both supported and initializable,
\* Initialize returns failure and leaves the pipeline uninitialized with no
\* driver and no created surface, and until the next Initialize every
\* BeginFrame, EndFrame, ReadbackFrame and Resize fails.
C9_NoDriverAvailable ==
    /\ (lastSel.ran /\ lastSel.expected = "None") =>
           (ret = Ret("Initialize", FALSE) /\ initFailure = "nodriver")
    /\ initFailure = "nodriver" =>
           /\ ~m_initialized /\ ~m_frameActive
           /\ m_driver = NoDriver
           /\ ~m_surface.created
           /\ ret.op \in {"BeginFrame", "EndFrame", "ReadbackFrame", "Resize"} => ~ret.ok

C9_Witness ==
    initFailure = "nodriver" /\ ret.op = "Resize" /\ ~ret.ok /\ lastFrameCall = "EndFrame"

\* C10: when the primary surface cannot be created after a driver was
\* selected and initialized, Initialize returns failure, that driver is shut
\* down and then destroyed, no driver instance is left alive and the
\* pipeline is uninitialized.
C10_SurfaceFailureReleasesDriver ==
    /\ (lastSel.ran /\ lastSel.api # "None" /\ ~m_surface.created) =>
           /\ ret = Ret("Initialize", FALSE)
           /\ initFailure = "surface"
           /\ \E i, j, k \in DOMAIN calls :
                 /\ i < j /\ j < k
                 /\ calls[i].op = "Initialize" /\ calls[i].res
                 /\ calls[j].op = "Shutdown" /\ calls[j].inst = calls[i].inst
                 /\ calls[j].res
                 /\ calls[k].op = "destroy" /\ calls[k].inst = calls[i].inst
           /\ Cardinality({i \in DOMAIN calls : calls[i].op = "factory"})
                 = Cardinality({i \in DOMAIN calls : calls[i].op = "destroy"})
    /\ initFailure = "surface" => (~m_initialized /\ m_driver = NoDriver)

C10_Witness ==
    /\ lastSel.ran /\ lastSel.api = "DX11" /\ initFailure = "surface"
    /\ \E i \in DOMAIN calls : calls[i].op = "CreateTarget" /\ ~calls[i].res

\* The number of driver instances alive after the first k driver calls of an
\* operation that started with the pipeline owning driver d: unique_ptr
\* construction by a factory adds one, its destruction removes one.
LiveAfter(d, log, k) ==
    (IF d = NoDriver THEN 0 ELSE 1)
    + Cardinality({i \in 1..k : log[i].op = "factory"})
    - Cardinality({i \in 1..k : log[i].op = "destroy"})

\* C11: at every point of every pipeline operation, including after each
\* driver call made inside the selection loops, at most one driver instance
\* is alive, and the instance alive when the operation returns is the one
\* m_driver owns.
C11_AtMostOneLiveDriver ==
    [][ /\ \A k \in 0..Len(calls') : LiveAfter(m_driver, calls', k) \in {0, 1}
        /\ LiveAfter(m_driver, calls', Len(calls'))
              = (IF m_driver' = NoDriver THEN 0 ELSE 1) ]_vars

C11_Witness ==
    /\ lastSel.ran /\ m_driver # NoDriver /\ m_driver.inst = 2
    /\ \E i, j \in DOMAIN calls :
          /\ i < j
          /\ calls[i].op = "destroy" /\ calls[i].inst = 1
          /\ calls[j].op = "factory" /\ calls[j].inst = 2

\* C12: for every threshold t and every alpha a of an in-bounds pixel of the
\* hit tester's buffer, IsTransparentAt returns true iff a <= t and
\* IsOpaqueAt returns true iff a > t (so a = t passes through and a = t + 1
\* is captured), and GetAlphaAt returns a.
C12_ThresholdLaw ==
    conv.step = "queried" =>
        /\ conv.alpha = conv.out[4]
        /\ conv.transparent <=> (conv.out[4] <= conv.threshold)
        /\ conv.opaque <=> (conv.out[4] > conv.threshold)

C12_Witness ==
    /\ conv.step = "queried" /\ conv.threshold = 77
    /\ conv.out[4] = conv.threshold + 1 /\ conv.opaque /\ ~conv.transparent

\* C13: a WM_NCHITTEST at an in-bounds (x, y) that runs with the frame
\* thread idle, after an UpdateFrame that succeeded, answers pass-through
\* iff the alpha of the pushed source frame at (x, y) is at most the
\* window's threshold.
C13_HitTestSeesPushedFrame ==
    [][ (/\ msgT.pc = "q_compare" /\ obs'.done /\ ~obs'.overlapped
         /\ pushed # NoFrame
         /\ obs'.x >= 0 /\ obs'.x < pushed.w /\ obs'.y >= 0 /\ obs'.y < pushed.h)
        => (obs'.result <=>
               (SourceAlphaAt(pushed, obs'.x, obs'.y) <= win.m_alphaThreshold)) ]_vars

C13_Witness ==
    /\ obs.done /\ ~obs.overlapped /\ pushed # NoFrame
    /\ obs.x = 1 /\ pushed.w = 2 /\ win.m_alphaThreshold = DefaultThreshold
    /\ SourceAlphaAt(pushed, 1, 0) = DefaultThreshold + 1 /\ ~obs.result

\* C14 as stated: for 0 < a < 255 every output channel equals
\* (c * a + 127) / 255 rounded to the nearest integer, and the output alpha
\* equals a.
C14_RoundOfBiasedQuotient ==
    (conv.step = "converted" /\ conv.src[4] > 0 /\ conv.src[4] < 255) =>
        /\ \A i \in 1..3 :
              conv.out[4 - i] = RoundNearest(conv.src[i] * conv.src[4] + 127, 255)
        /\ conv.out[4] = conv.src[4]

\* C14 (amended): for 0 < a < 255 every output channel is the integer
\* nearest to c * a / 255, and the output alpha equals a.
C14_NearestPremultiplied ==
    (conv.step = "converted" /\ conv.src[4] > 0 /\ conv.src[4] < 255) =>
        /\ \A i \in 1..3 :
              LET o == conv.out[4 - i]
                  e == 255 * o - conv.src[i] * conv.src[4]
              IN  o \in Byte /\ 2 * e <= 255 /\ 2 * e >= -255
        /\ conv.out[4] = conv.src[4]

C14_Witness ==
    /\ conv.step = "converted"
    /\ conv.src[1] = 254 /\ conv.src[4] = 128 /\ conv.out[3] = 127

\* C15: a source pixel of alpha 255 is written with its colour bytes
\* unchanged in B, G, R order and alpha 255; a source pixel of alpha 0 is
\* written as four zero bytes.
C15_SaturatedAlpha ==
    conv.step = "converted" =>
        /\ conv.src[4] = 255 =>
              conv.out = <<conv.src[3], conv.src[2], conv.src[1], 255>>
        /\ conv.src[4] = 0 => conv.out = <<0, 0, 0, 0>>

C15_Witness ==
    /\ conv.step = "converted" /\ conv.src[4] = 255
    /\ conv.src[1] = 200 /\ conv.out = <<128, 17, 200, 255>>

\* C16: on the software backend a ReadbackFrame that directly follows a
\* successful EndFrame (whose frame a successful BeginFrame opened, with no
\* draw call) succeeds and returns a buffer of the surface's width and
\* height, holding width * height pixels, in which every component is the
\* 8-bit value nearest to 255 times the configured clear colour's component
\* clamped to [0,1]; for the clear colour {0,0,0,0} every byte is zero.
C16_ClearedFrameReadback ==
    [][(/\ ret = Ret("EndFrame", TRUE)
        /\ m_driver.api = "OpenGL"
        /\ ret'.op = "ReadbackFrame")
       => LET rb == m_surface'.readback
              Clamped(c) == IF c < 0 THEN 0 ELSE IF c > ColorUnit THEN ColorUnit ELSE c
              Dist(o, c) == IF ColorUnit * o >= 255 * Clamped(c)
                            THEN ColorUnit * o - 255 * Clamped(c)
                            ELSE 255 * Clamped(c) - ColorUnit * o
          IN  /\ ret'.ok
              /\ rb.width = m_surface'.width
              /\ rb.height = m_surface'.height
              /\ rb.width > 0 /\ rb.height > 0
              /\ rb.size = rb.width * rb.height * 4
              /\ Len(rb.data) = rb.width * rb.height
              /\ \A i \in 1..Len(rb.data) : \A k \in 1..4 :
                    /\ rb.data[i][k] \in Byte
                    /\ 2 * Dist(rb.data[i][k], m_config.clearColor[k]) <= ColorUnit
                    /\ m_config.clearColor = TransparentBlack => rb.data[i][k] = 0
      ]_vars

\* A two-pixel frame cleared to a colour with components below 0, above 1
\* and between two levels has been read back right after its EndFrame.
C16_Witness ==
    /\ ret = Ret("ReadbackFrame", TRUE)
    /\ lastFrameCall = "EndFrame"
    /\ m_driver.api = "OpenGL"
    /\ m_config.clearColor = <<-1020, 2040, 511, 3>>
    /\ m_surface.readback.data = <<<<0, 255, 128, 1>>, <<0, 255, 128, 1>>>>

\* C17: every read a hit-test query makes of the buffer reference, the
\* dimensions or the threshold happens while the query holds
\* ClickThrough::m_mutex.
C17_QueryReadsUnderMutex ==
    obs.done => (obs.bufferUnderMutex /\ obs.thresholdUnderMutex)

\* C18: no hit test reads the back buffer while UpdateFrame's conversion is
\* writing it.
C18_NoReadDuringConversion ==
    obs.done => ~obs.converting

\* C19: no hit test reads through a back-buffer reference whose buffer has
\* been freed.
C19_NoReadOfFreedBuffer ==
    obs.done => ~obs.freed


\* C20: every Shutdown call, from whatever state and in particular in the
\* middle of a frame, leaves the pipeline not initialized, with no frame
\* active, the surface destroyed and no driver held; and a BeginFrame that
\* directly follows an Initialize which initialized the pipeline is accepted
\* and opens a frame.
C20_ShutdownLeavesNoFrame ==
    [][/\ ret'.op = "Shutdown" =>
            /\ ~m_initialized'
            /\ ~m_frameActive'
            /\ ~m_surface'.created
            /\ m_driver' = NoDriver
       /\ (ret = Ret("Initialize", TRUE) /\ lastSel.ran /\ ret'.op = "BeginFrame") =>
            /\ ret'.ok
            /\ m_frameActive'
      ]_vars

\* A frame was open when Shutdown was called; the Initialize and the
\* BeginFrame that followed were both accepted.
C20_Witness ==
    /\ forcedEnd
    /\ ret = Ret("BeginFrame", TRUE)
    /\ m_initialized
    /\ m_frameActive


\* C21: a Resize called while a frame is active fails and changes nothing:
\* the surface (its dimensions and readback buffer) and the driver (its
\* target) are as before, no driver call is made and the frame stays active.
\* With no frame active Resize is the surface's: either it makes no driver
\* call and changes nothing, or it makes the one ResizeTarget call, returns
\* that call's result and, on success, takes the new dimensions for the
\* surface and its readback buffer.
C21_ResizeMidFrameIgnored ==
    [][ret'.op = "Resize" =>
          /\ (m_initialized /\ m_frameActive) =>
                /\ ~ret'.ok
                /\ calls' = <<>>
                /\ m_surface' = m_surface
                /\ m_driver' = m_driver
                /\ m_frameActive'
          /\ (m_initialized /\ ~m_frameActive) =>
                /\ m_frameActive' = m_frameActive
                /\ \/ calls' = <<>> /\ m_surface' = m_surface /\ m_driver' = m_driver
                   \/ /\ Len(calls') = 1
                      /\ calls'[1].op = "ResizeTarget"
                      /\ calls'[1].res = ret'.ok
                      /\ IF ret'.ok
                         THEN /\ <<m_surface'.width, m_surface'.height>> #
                                    <<m_surface.width, m_surface.height>>
                              /\ m_surface'.width = m_driver'.targetWidth
                              /\ m_surface'.height = m_driver'.targetHeight
                              /\ m_surface'.readback.width = m_surface'.width
                              /\ m_surface'.readback.height = m_surface'.height
                         ELSE m_surface' = m_surface
       ]_vars

\* A Resize was refused in the middle of a frame.
C21_Witness ==
    /\ ret = Ret("Resize", FALSE)
    /\ m_initialized
    /\ m_frameActive
    /\ m_surface.created

\* C23: Initialize on an initialized pipeline returns success, calls no
\* factory and no driver, and leaves the driver, the surface, the stored
\* configuration and the frame-active flag as they were.
C23_InitializeTwice ==
    [][(m_initialized /\ ret'.op = "Initialize") =>
          /\ ret'.ok
          /\ calls' = <<>>
          /\ ~lastSel'.ran
          /\ m_driver' = m_driver
          /\ m_surface' = m_surface
          /\ m_config' = m_config
          /\ m_frameActive' = m_frameActive
          /\ m_initialized'
       ]_vars

\* Initialize was called again in the middle of a frame of a pipeline that
\* was configured with a non-default clear colour.
C23_Witness ==
    /\ ret = Ret("Initialize", TRUE)
    /\ ~lastSel.ran
    /\ m_initialized
    /\ m_frameActive
    /\ m_config.clearColor # TransparentBlack


\* C22: Resize(w, h) on a created surface whose dimensions are already
\* (w, h) returns success, makes no driver call, and leaves the surface with
\* its readback buffer, and the driver, exactly as they were.
C22_ResizeSameSize ==
    [][(/\ dret'.op = "Surface.Resize"
        /\ surf.created
        /\ dret'.args = <<surf.width, surf.height>>)
       => /\ dret'.ok
          /\ dret'.log = <<>>
          /\ surf' = surf
          /\ drv' = drv
      ]_vars

\* A created surface of two pixels was resized to its own size.
C22_Witness ==
    /\ dret.op = "Surface.Resize"
    /\ dret.ok
    /\ dret.log = <<>>
    /\ surf.created
    /\ dret.args = <<surf.width, surf.height>>
    /\ surf.readback.size = 8


\* C24: a Shutdown that directly follows a Shutdown changes nothing, for the
\* pipeline and for a driver of either backend, and so does a Shutdown of a
\* component that is not initialized (in particular one that never was).
C24_ShutdownIdempotent ==
    [][/\ (ret'.op = "Shutdown" /\ (ret.op = "Shutdown" \/ ~m_initialized)) =>
            /\ m_driver' = m_driver
            /\ m_surface' = m_surface
            /\ m_initialized' = m_initialized
            /\ m_frameActive' = m_frameActive
            /\ m_lastStats' = m_lastStats
            /\ m_config' = m_config
            /\ calls' = <<>>
       /\ (dret'.op = "Shutdown" /\ (dret.op = "Shutdown" \/ ~drv.initialized)) =>
            drv' = drv
      ]_vars

\* A DX11 driver whose Initialize failed after the device was created has
\* been shut down twice in a row.
C24_Witness ==
    /\ dret.op = "Shutdown"
    /\ dret.again
    /\ drv.api = "DX11"
    /\ ~drv.initialized
    /\ drv.held # {}


\* C25: for both backends a driver is not initialized when its Shutdown has
\* returned, and on a driver that is not initialized (so from a Shutdown to
\* the next successful Initialize) CreateTarget, ResizeTarget, BeginFrame,
\* EndFrame and ReadbackPixels return failure.
C25_NothingSucceedsAfterShutdown ==
    [][/\ dret'.op = "Shutdown" => ~drv'.initialized
       /\ (/\ ~drv.initialized
           /\ dret'.op \in {"CreateTarget", "ResizeTarget", "BeginFrame",
                            "EndFrame", "ReadbackPixels"})
          => ~dret'.ok
      ]_vars

\* A driver that had completed a frame on a target was shut down, and a
\* ReadbackPixels called on it afterwards failed.
C25_Witness ==
    /\ dret.op = "ReadbackPixels"
    /\ ~dret.ok
    /\ ~drv.initialized
    /\ drv.frameCounter > 0


\* C26: a driver whose Initialize has just returned failure, whichever step
\* failed, is not initialized and holds no device-level object and no
\* render-target resource.
C26_FailedInitializeHoldsNothing ==
    (dret.op = "Initialize" /\ ~dret.ok) =>
        /\ ~drv.initialized
        /\ drv.held = {}
        /\ ~drv.rtv /\ ~drv.dsv /\ ~drv.staging


\* C27: for each backend, BeginFrame and EndFrame called on a driver that has
\* no render target (DX11: no render-target view; OpenGL: target dimensions
\* zero) return failure, and such an EndFrame leaves m_frameCounter as it was.
C27_NoTargetNoFrame ==
    [][(/\ dret'.op \in {"BeginFrame", "EndFrame"}
        /\ IF drv.api = "DX11" THEN ~drv.rtv
           ELSE drv.targetWidth <= 0 \/ drv.targetHeight <= 0)
       => /\ ~dret'.ok
          /\ drv'.frameCounter = drv.frameCounter
      ]_vars


\* C28: the frame number GetFrameStats reports (m_lastStats.frameNumber) never
\* decreases, is one more after each pipeline EndFrame that returns success,
\* and is unchanged by every other pipeline operation.
C28_FrameNumberMonotonic ==
    [][/\ m_lastStats' >= m_lastStats
       /\ IF ret'.op = "EndFrame" /\ ret'.ok
          THEN m_lastStats' = m_lastStats + 1
          ELSE m_lastStats' = m_lastStats
      ]_vars


\* C29: a ReadbackPixels called right after a CreateTarget that succeeded
\* with a w x h descriptor succeeds on the software backend, and when it
\* succeeds (on DX11 the staging texture's Map can fail) the output has width
\* w, height h and w*h*4 bytes, whatever its size was when passed in.
C29_ReadbackAfterCreateHasDescriptorSize ==
    [][(dret.op = "CreateTarget" /\ dret.ok /\ dret'.op = "ReadbackPixels")
       => /\ drv.api = "OpenGL" => dret'.ok
          /\ dret'.ok =>
               /\ out'.width = dret.args[1]
               /\ out'.height = dret.args[2]
               /\ out'.size = dret.args[1] * dret.args[2] * 4
               /\ Len(out'.data) * 4 = out'.size
      ]_vars

\* A 1 x 1 target was created and read back at once into an output that was
\* MaxWidth x MaxHeight when passed in.
C29_Witness ==
    /\ dret.op = "ReadbackPixels" /\ dret.ok /\ dret.created
    /\ dret.args = <<MaxWidth, MaxHeight>>
    /\ out.width = 1 /\ out.height = 1 /\ out.size = 4


\* C30: a call with invalid arguments returns failure and changes nothing:
\* GPUSurface::Create with a null driver, a driver that is not initialized or
\* a non-positive dimension leaves the surface and the driver as they were and
\* calls nothing on the driver; so does GPUSurface::Resize with a non-positive
\* dimension; TransparentWindow::UpdateFrame returning for a null pixel
\* pointer or a non-positive dimension leaves the window, its back buffer,
\* the hit tester and the pushed frame as they were.
C30_InvalidArgumentsMutateNothing ==
    [][/\ (/\ dret'.op = "Surface.Create"
           /\ \/ dret'.args[1] = "null"
              \/ ~drv.initialized
              \/ dret'.args[2] <= 0
              \/ dret'.args[3] <= 0)
          => ~dret'.ok /\ dret'.log = <<>> /\ surf' = surf /\ drv' = drv
       /\ (/\ dret'.op = "Surface.Resize"
           /\ (dret'.args[1] <= 0 \/ dret'.args[2] <= 0))
          => ~dret'.ok /\ dret'.log = <<>> /\ surf' = surf /\ drv' = drv
       /\ (/\ frameT.pc = "idle" /\ frameT'.pc = "idle" /\ msgT'.pc = msgT.pc
           /\ obs'.op \in {"UpdateFrame received null pixel pointer",
                           "UpdateFrame received invalid dimensions"})
          => win' = win /\ heap' = heap /\ ct' = ct /\ pushed' = pushed
      ]_vars

\* Create with a zero width failed on a surface that had been created, and
\* the surface is still there.
C30_Witness ==
    /\ dret.op = "Surface.Create"
    /\ ~dret.ok
    /\ dret.args[1] = "drv" /\ dret.args[2] = 0
    /\ surf.created /\ drv.initialized

\* C31: when the driver's CreateTarget fails inside GPUSurface::Create, Create
\* returns failure and the surface is not created and holds no driver; and on
\* a surface that is not created, Resize and ReadPixels fail without a call
\* to the driver.
C31_FailedCreateLeavesNoSurface ==
    [][/\ (/\ dret'.op = "Surface.Create"
           /\ dret'.log # <<>>
           /\ dret'.log[Len(dret'.log)].op = "CreateTarget"
           /\ ~dret'.log[Len(dret'.log)].res)
          => ~dret'.ok /\ ~surf'.created /\ ~surf'.hasDriver
       /\ (~surf.created /\ dret'.op \in {"Surface.Resize", "Surface.ReadPixels"})
          => ~dret'.ok /\ dret'.log = <<>>
      ]_vars

\* ReadPixels failed, calling nothing, on a surface whose Create had failed
\* in the driver (its dimensions were written, it was never created).
C31_Witness ==
    /\ dret.op = "Surface.ReadPixels"
    /\ ~dret.ok /\ dret.log = <<>>
    /\ ~surf.created /\ ~surf.hasDriver /\ surf.width > 0
    /\ drv.initialized

\* C32: a DX11 CreateTarget that succeeds with a sample count the device does
\* not support for the format creates the colour buffer, and the depth/stencil
\* buffer when there is one, with one sample; and a ResizeTarget that succeeds
\* on a driver holding a target keeps the target's format, depth presence and
\* sample count.
C32_MsaaFallbackIsUniform ==
    [][/\ (/\ dret'.op = "CreateTarget" /\ dret'.ok /\ drv.api = "DX11"
           /\ ~DX11_MsaaSupported(dret'.args[3], dret'.args[5])
           /\ dret'.args[5] > 1)
          => /\ drv'.rtSamples = 1
             /\ drv'.sampleCount = 1
             /\ drv'.dsv => drv'.dsSamples = 1
       /\ (dret'.op = "ResizeTarget" /\ dret'.ok /\ drv.api = "DX11" /\ drv.rtv)
          => /\ drv'.targetFormat = drv.targetFormat
             /\ drv'.dsv = drv.dsv
             /\ drv'.rtSamples = drv.rtSamples
      ]_vars

\* C35: a pipeline EndFrame called with a frame active and not returned early
\* leaves no frame active, whether the driver's EndFrame succeeded or failed;
\* and the BeginFrame that follows an EndFrame on an initialized pipeline is
\* not returned as nested: it reaches the driver.
C35_EndFrameAlwaysClosesFrame ==
    [][/\ (ret'.op = "EndFrame" /\ m_frameActive /\ m_initialized) => ~m_frameActive'
       /\ (/\ ret'.op = "BeginFrame" /\ ret.op = "EndFrame"
           /\ m_initialized /\ m_driver # NoDriver)
          => /\ calls' # <<>>
             /\ calls'[1].op = "BeginFrame"
      ]_vars

\* The driver's EndFrame failed inside a pipeline EndFrame (the target had
\* been destroyed mid-frame), and no frame is active.
C35_Witness ==
    /\ ret.op = "EndFrame" /\ ~ret.ok
    /\ calls # <<>> /\ calls[1].op = "EndFrame" /\ ~calls[1].res
    /\ m_initialized /\ ~m_frameActive

\* C36: after every pipeline operation the pipeline is initialized exactly
\* when it holds a driver and exactly when its primary surface is created,
\* a held driver is initialized, and a frame is active only on an
\* initialized pipeline.
C36_LifecycleInvariant ==
    /\ m_initialized <=> (m_driver # NoDriver)
    /\ m_initialized <=> m_surface.created
    /\ (m_driver # NoDriver) => m_driver.initialized
    /\ m_frameActive => m_initialized

\* An Initialize that selected the DX11 driver and then failed to create the
\* primary surface has returned: no driver, no surface, not initialized.
C36_Witness ==
    /\ ret = Ret("Initialize", FALSE) /\ initFailure = "surface"
    /\ ~m_initialized /\ m_driver = NoDriver /\ ~m_surface.created
    /\ m_lastStats > 0

\* C37: whenever the surface reports itself created, the driver holds a render
\* target and the surface's, the readback buffer's and the driver target's
\* width and height are equal; and a Resize that returned success leaves a
\* target of the requested size.
C37_TargetMatchesSurface ==
    /\ surf.created =>
         /\ IF drv.api = "DX11" THEN drv.rtv /\ drv.staging ELSE IsValid(drv.buf)
         /\ surf.width = drv.targetWidth /\ surf.height = drv.targetHeight
         /\ surf.readback.width = surf.width /\ surf.readback.height = surf.height
    /\ (dret.op = "Surface.Resize" /\ dret.ok) =>
         /\ IF drv.api = "DX11" THEN drv.rtv /\ drv.staging ELSE IsValid(drv.buf)
         /\ drv.targetWidth = dret.args[1] /\ drv.targetHeight = dret.args[2]

\* C34: alpha queries are bounds-safe.  ClickThrough::GetAlphaAt returns 0 for
\* a coordinate outside [0,width) x [0,height) and when no buffer is set, and
\* what it reads is allocated memory; a query that got alpha 0 is answered
\* pass-through whatever the threshold; TransparentWindow::GetAlphaAtClientPos
\* returns 0 outside the back buffer and when there is none, and otherwise
\* reads inside the allocated back buffer.
C34_AlphaQueriesBoundsSafe ==
    [][/\ (msgT.pc = "q_locked" /\ msgT'.pc = "q_compare")
          => /\ CT_OutOfBounds(ct, msgT.x, msgT.y) => msgT'.alpha = 0
             /\ ~msgT'.freed
       /\ (msgT.pc = "q_compare" /\ obs'.done /\ msgT.alpha = 0) => obs'.result
       /\ \A cx \in QueryXs, cy \in QueryYs :
            IF GetAlphaAtClientPos_OutOfBounds(win', cx, cy)
            THEN GetAlphaAtClientPos(win', heap', cx, cy) = 0
            ELSE GetAlphaAtClientPos_ReadDefined(win', heap', cx, cy)
      ]_vars

\* C38: hit-tester reference validity.  Whenever no window operation is in
\* progress (after Initialize, after an UpdateFrame that succeeded or whose
\* reallocation failed, after Shutdown, after a re-Initialize) the buffer
\* ClickThrough holds is null, or it is the window's current back buffer,
\* allocated, with the back buffer's width and height.
C38_HitTesterReferenceValid ==
    frameT.pc = "idle" =>
        \/ ct.m_buffer = 0
        \/ /\ ct.m_buffer = win.m_pixels
           /\ ct.m_buffer \in DOMAIN heap
           /\ ~heap[ct.m_buffer].freed
           /\ ct.m_width = win.m_bufW
           /\ ct.m_height = win.m_bufH

\* C39: premultiplied-alpha validity.  For every 8-bit colour and alpha, the
\* pixel UpdateFrame's conversion writes has B <= A, G <= A and R <= A, and
\* its alpha byte is the input's alpha.
C39_PremultipliedAlphaValid ==
    conv.step # "new" =>
        /\ Len(conv.out) = 4
        /\ conv.out[1] <= conv.out[4]
        /\ conv.out[2] <= conv.out[4]
        /\ conv.out[3] <= conv.out[4]
        /\ conv.out[4] = conv.src[4]

\* A half-transparent pixel with a saturated red channel has been converted.
C39_Witness ==
    /\ conv.step = "converted"
    /\ conv.src[1] = 255
    /\ conv.src[4] \in 1..254
    /\ conv.out[3] = conv.src[4]

\* C33: Update invokes the fade-completion callback only after it has
\* cleared the fading flag, set the current opacity to the target and
\* released m_mutex; a callback that calls FadeTo, SetOpacity or a getter of
\* the same controller never blocks on m_mutex.
C33_CallbackAfterMutationAndUnlock ==
    /\ fade.pc = "callback" =>
          /\ fade.m_mutex = "none"
          /\ ~fade.m_fading
          /\ fade.m_currentOpacity = fade.m_targetOpacity
    /\ ~fade.deadlock

\* A callback called FadeTo on its controller and started the next fade.
C33_Witness ==
    /\ fade.pc = "idle"
    /\ fade.reentry = "FadeTo"
    /\ fade.m_fading
    /\ fade.fired = 0

\* C40: fade completion.  A fade FadeTo started with a positive duration and
\* left to run is brought to its end by Update calls with a positive frame
\* time: IsFading becomes false with the current opacity equal to the
\* target; the opacity is never outside [0, 1]; and the callback installed
\* when the fade completes is invoked exactly once for it.
C40_FadeCompletes ==
    /\ [](fade.m_currentOpacity \in 0..FloatUlpsPerUnit)
    /\ [](fade.fired <= 1)
    /\ []((fade.pc = "idle" /\ fade.completed /\ fade.hadCallback) => fade.fired = 1)
    /\ [](fade.completed => fade.m_currentOpacity = fade.m_targetOpacity)
    /\ (fade.m_fading ~> (~fade.m_fading /\ fade.m_currentOpacity = fade.m_targetOpacity))

====
